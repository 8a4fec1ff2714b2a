SPECIFICATION Spec
CONSTANTS
    c1 = c1
    c2 = c2
    c3 = c3
    SemCobranca = SemCobranca
    Cobrancas = {c1, c2}
    MaxPagamentos = 2
    Total <- MCTotal
    Politica <- MCPolitica
    Finalidade <- MCFinalidade
    Licenca <- MCLicenca
    Metodos = {"pix"}
    PosPago = {"refunded"}
    Tardio = FALSE
    Modos = {"quitar"}
    Parciais = {}
    MaxReq = 0
    MaxWeb = 1
INVARIANT PagamentoTardioSinalizado
