CONSTANTS
    here = here
    twin1 = twin1
    twin2 = twin2
    third = third
    Collection <- MCCollection
    Namespace <- MCNamespace
    NameOf <- MCNameOf
    Item <- MCItem
    Hash <- MCHash
    Selectable <- MCSelectable
    MaxUID <- MCMaxUID
    MaxFaults = 1
SPECIFICATION FairSpec
INVARIANTS TypeOK
PROPERTIES MatchesSpared MembersConverge MatchesObserved 
CHECK_DEADLOCK FALSE
