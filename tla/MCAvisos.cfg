SPECIFICATION FairSpec
CONSTANTS
    c1 = c1
    SemCobranca = SemCobranca
    Cobrancas = {c1}
    MaxPagamentos = 2
    Total <- MCTotal
    Politica <- MCPolitica
    Finalidade <- MCFinalidade
    Licenca <- MCLicenca
    Metodos = {"pix", "cartao"}
    PosPago = {"refunded"}
    Tardio = TRUE
    Modos = {"quitar"}
    Parciais = {}
    MaxReq = 0
    MaxWeb = 1
PROPERTIES ReconhecePago TentativaMortaSolta
CHECK_DEADLOCK FALSE
