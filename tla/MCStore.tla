------------------------------ MODULE MCStore ------------------------------
EXTENDS Store, TLC

CONSTANTS init1, init2, old, new  \* "old" is a command of an older build

MCInits == {init1, init2}
MCCommands == {old, new}
MCBuild == (init1 :> 2) @@ (init2 :> 2) @@ (old :> 1) @@ (new :> 2)
MCCreating == {<<1, 2>>}  \* migration 2 creates nothing: only its row refuses it twice
=============================================================================
