SPECIFICATION Spec
CONSTANTS
    etapas = etapas
    final = final
    Chaves = {etapas, final}
    EntregaFinal = final
    Padrao <- MCPadrao
    Servicos = {s1}
    Nada = Nada
    MaxVersoes = 1
INVARIANT VoltaAoContrato
CHECK_DEADLOCK FALSE
