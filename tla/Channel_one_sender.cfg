\* A closer and a remover: one sender, the channel's owner receiving.  The
\* threads stop after their calls; SendCompletes and ReceiveCompletes say
\* that no call is left blocked.
CONSTANTS
    s1 = s1  r1 = r1
    Senders = {s1}
    Receiver = r1
    Msgs <- OneSenderMsgs
    MaxSends = 4
SPECIFICATION Spec
INVARIANT TypeOK
PROPERTY ImplementsSyncChannel
PROPERTY SendCompletes
PROPERTY ReceiveCompletes
