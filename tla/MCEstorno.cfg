SPECIFICATION Spec
CONSTANTS
    c1 = c1
    SemCobranca = SemCobranca
    Cobrancas = {c1}
    MaxPagamentos = 1
    Total <- MCTotal
    Politica <- MCPolitica
    Finalidade <- MCFinalidade
    Licenca <- MCLicenca
    Metodos = {"pix"}
    PosPago = {"refunded", "charged_back"}
    Tardio = FALSE
    Modos = {"quitar", "parcial"}
    Parciais = {1}
    MaxReq = 1
    MaxWeb = 2
INVARIANT EstornoSinalizado
