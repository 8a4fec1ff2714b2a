SPECIFICATION Spec
CONSTANTS
    c1 = c1
    SemCobranca = SemCobranca
    Cobrancas = {c1}
    MaxPagamentos = 2
    Total <- MCTotal
    Politica <- MCPolitica
    Finalidade <- MCFinalidade
    Licenca <- MCLicenca
    Metodos = {"pix"}
    PosPago = {"refunded"}
    Tardio = TRUE
    Modos = {"quitar", "parcial"}
    Parciais = {1}
    MaxReq = 1
    MaxWeb = 1
INVARIANTS TypeOK NuncaSobrepago UmaTentativa LiberaQuandoPaga
PROPERTIES ImplementaLivro
