SPECIFICATION TablesSpec
CONSTANTS
    Emails = {adm, e1}
    Administrator = adm
    Groups = {g1, g2}
    FirstGroup = g1
    Policies = {p1, p2}
    LocalPolicy = p1
    Workers = {w1, w2}
    Ids = {root, o1, o2}
    Root = root
    NoId = NoId
    Names = {"a", "b"}
    Handlers = {w1, w2}
    Persons = {u1}
    Nonces = {o1, o2}
    NoNonce = NoNonce
    Options = {github}
    Clients = {w1, w2}
    Apps = {app}
    Exts = {docx}
    Teams = {t1}
    Callers = {w1, w2}
    Files = {f1}
    Shares = {s1}
    NoFile = NoFile
    Readers = {r1}
    Themes = {blue, green, red}
    FirstTheme = blue
    Stylers = {w1, w2}
    Persona = {u1}
    Entries = {x1}
    Keys = {o1, o2}
    Values = {blue, green}
    Absent = Absent
    Labels = {blue, green}
    Patchers = {w1, w2}
    Definers = {w1, w2}
    Contents = {c1, c2, c3}
    Date = Date
    Original = Original
    Nothing = Nothing
SYMMETRY Symmetry
INVARIANTS
    TypeOK
    ReferencesHold
    RegisteredHaveRoot
    NamesAndParentsHold
    AcyclicAlone
    ChallengesOnce
    RestrictedStaysHidden
    RevokedRefused
    PatchesWhole
    OwnPaths
PROPERTIES
    DefaultKept
