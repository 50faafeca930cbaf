SPECIFICATION MCSpec
CONSTANTS
    Users = {1, 2}
    Profiles = {1, 2}
    Servers = {1}
    Capacity = 1
    Txs = {1, 2, 3}
    Scenes <- AllScenes
    Nil = Nil
    w1 = w1  w2 = w2  m1 = m1  m2 = m2
INVARIANTS PanelNeverDeadlocks  MailIsBounded
PROPERTIES AnsweredGrantsHold FirstCredentialIsCut MailIsSettled
CHECK_DEADLOCK FALSE
