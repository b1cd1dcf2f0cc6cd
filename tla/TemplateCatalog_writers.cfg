SPECIFICATION CatalogSpec
CONSTANTS
    Writers = {w1, w2}
    Nodes = {n1}
    Ids = {x, y}
    Names = {a}
    None = None
INVARIANT IdSelectsItself
PROPERTY AliasNeverRebound
