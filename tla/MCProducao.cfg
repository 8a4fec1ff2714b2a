SPECIFICATION Spec
CONSTANTS
    p1 = p1
    a1 = a1
    a2 = a2
    d1 = d1
    Ninguem = Ninguem
    Coordenador = d1
    Producoes = {p1}
    Alocacoes = {a1, a2}
    Produtores = {d1}
    Unidades = 2
    ValorLote = 11
    ValorProposta = 7
    Pesos <- DuasEtapas
    Dependentes = {2}
    Incluidas = 0
    ExigirAdmin = TRUE
    Valores = {1}
INVARIANTS TypeOK OrigemUnica LoteNaoExcede RepasseNaoExcede DependenciaRespeitada RegistroFiel
    TrabalhoFinanciado
SYMMETRY Simetria
