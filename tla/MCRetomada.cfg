SPECIFICATION Spec
CONSTANTS
    c1 = c1
    SemCobranca = SemCobranca
    Cobrancas = {c1}
    MaxPagamentos = 2
    Total <- MCTotal
    Politica <- MCPolitica
    Finalidade <- MCFinalidade
    Licenca <- MCLicenca
    Metodos = {"pix", "cartao"}
    PosPago = {"refunded", "charged_back"}
    Tardio = FALSE
    Modos = {"quitar", "parcial"}
    Parciais = {1}
    MaxReq = 1
    MaxWeb = 1
INVARIANT TentativaRetomavel
