CONSTANTS
    a = a
    b = b
    c1 = c1
    c2 = c2
    m1 = m1
    m2 = m2
    Nicknames <- MCNicknames
    ContactIds <- MCContactIds
    MIDs <- MCMIDs
    User = User
    NoContact = NoContact
    NoMsg = NoMsg
    NoDesc = NoDesc
    NoMid = NoMid
    MaxTid = 2
    MaxInbox = 2
    MaxKxBlob = 2
    MaxTime = 1
    MessageExpiration = 0
    MaxMissingMessages = 2
    RetransmitLimit = 2
SYMMETRY MCSymmetry
SPECIFICATION Spec
INVARIANT TypeOK
INVARIANT ReadsNeverAhead
INVARIANT ReceivedAtMostOnce
INVARIANT UnackedWithinWindow
INVARIANT ContactIndexConsistent
PROPERTY ReaderRefinement
PROPERTY OffsetMonotone
