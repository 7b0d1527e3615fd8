SPECIFICATION Spec
CONSTANTS
    MaxAsked = 2
    MaxMixed = 2
    Hosts = {h1, h2}
    Texts = {"", "abc"}
    LongTexts = {"abc"}
PROPERTIES
    ScopeIsAsked
