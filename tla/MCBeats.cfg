SPECIFICATION Spec
CONSTANTS
    c1 = c1
    c2 = c2
    c3 = c3
    SemCobranca = SemCobranca
    Cobrancas = {c1, c2, c3}
    MaxPagamentos = 4
    Total <- MCTotal
    Politica <- MCPolitica
    Finalidade <- MCFinalidade
    Licenca <- MCLicenca
    Metodos = {"cartao"}
    PosPago = {"refunded"}
    Tardio = FALSE
    Modos = {"quitar"}
    Parciais = {}
    MaxReq = 0
    MaxWeb = 1
CONSTRAINT Limite
INVARIANTS ExclusivoUnico LicencaSoPaga
PROPERTIES NadaSobreExclusivo
SYMMETRY Simetria
