SPECIFICATION Spec
CONSTANTS
    Sources = {s1, s2}
    Urls = {u1, u2}
    Titles = {t1, t2}
    Module = m
    Class = c
    Names = {m, c}
    NoName = NoName
    Parent <- Nesting
    Contents <- Inventories
    Starts <- First
    Home <- Sites
    Site1 = u1
    Site2 = u2
    Source1 = s1
    Workers = {w1, w2}
    Null = Null
    Garbled = Garbled
    PatchesRace = TRUE
    MaxEvents = 1
INVARIANT RetitledIsRebuilt
