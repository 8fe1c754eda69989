SPECIFICATION Spec
CONSTANTS
    ta = ta
    tb = tb
    Text = {ta, tb}
    Number = {n}
    Extra = {"v"}
    Trace = {0, 7}
    None = None
    Length <- MCLength
INVARIANTS
    TypeOK
    TablesAgree
    LengthsAgree
PROPERTIES
    Arrives
