SPECIFICATION Portal
CONSTANTS
    obra = obra
    cortesia = cortesia
    pacote = pacote
    beat = beat
    Nada = Nada
    Conteudos = {obra, cortesia, pacote, beat}
    Valor <- MCValor
    Creditos = {pacote}
    Beats = {beat}
    MaxVersao = 3
    MaxCatalogo = 1
    Emails = {e1, e2}
    MaxToken = 2
    Pedidos = {r1, r2}
    MaxObjetos = 5
    MaxUsados = 3
    MaxEnviados = 2
    MaxArquivos = 1
    MaxVersoes = 2
    MaxEntregas = 1
    Operadores = {ana}
    Trabalhos = {t1, t2}
    MaxEntradas = 2
    MaxTentativas = 2
    MaxMudancas = 3
    MaxFichas = 2
    Chaves = {etapas, final}
    EntregaFinal = final
    Servicos = {s1, s2}
    MaxGlobais = 1
    Compras = {lease, exclusivo}
    Exclusivas = {exclusivo}
    MaxConteudo = 2
    MaxSons = 4
    Textos = {x1, x2}
    Envios = {q1}
    MaxLinhas = 2
    MaxRevisoes = 2
    MaxCapas = 2
    Campos = {servico, nome}
    Confirmam = {1, 2}
    Inscritos = {i1, i2}
    Versoes = {v1, v2}
    PrimeiroTexto = v1
INVARIANTS TiposOK AceitaOQueRecebeu ContratoFiel EstadosCasados CobraSoAceita
    LinkGastoMorto SempreRecuperavel  CotaRespeitada HistoricoInteiro
    RespondeEmOrdem ValeOEnviado PromessaMantida PublicaOQueReviu
    PedidoUnico RelatorioFiel
PROPERTIES AceiteDefinitivo ClienteDoEstudioFica RoboCalado
SYMMETRY Simetria
CHECK_DEADLOCK FALSE
