CONSTANTS
    a = a
    b = b
    c1 = c1
    c2 = c2
    m1 = m1
    m2 = m2
    Nicknames <- MCTwoNicknames
    ContactIds <- MCContactIds
    MIDs <- MCMIDs
    User = User
    NoContact = NoContact
    NoMsg = NoMsg
    NoDesc = NoDesc
    NoMid = NoMid
    MaxTid = 1
    MaxInbox = 1
    MaxKxBlob = 2
    MaxTime = 1
    MessageExpiration = 0
    MaxMissingMessages = 2
    RetransmitLimit = 2
SYMMETRY MCSymmetry
SPECIFICATION Spec
PROPERTY BookRefinement
INVARIANT ContactIndexConsistent
