--------------------------- MODULE MCSessionDesk ---------------------------
EXTENDS SessionDesk

Open(n) == [status |-> "active", rev |-> n]
MCBeginnings == {[a |-> Open(1), b |-> Open(0)], [a |-> Open(1), b |-> NoInventory]}
=============================================================================
