--------------------------- MODULE MCMemoryBridge ---------------------------
EXTENDS MemoryBridge, TLC
CONSTANTS w1, w2, room, depend, p

FamilyOf == <<depend, room, room>>
ProjectOf == <<NoProject, p, p>>
=============================================================================
