---------------------------- MODULE DurableIndex ----------------------------
(***************************************************************************)
(* What the store promises about the chat list: the list in memory changes *)
(* by one row at a time, what is kept on disk is always the whole list as  *)
(* it was in memory at some moment, and a restart goes back to that.       *)
(***************************************************************************)
EXTENDS SequencesExt

CONSTANTS Rows          \* the rows a list may hold

VARIABLES now,          \* the list in memory
          kept          \* the list a restart reads

indexVars == <<now, kept>>

IndexInit == now = <<>> /\ kept = <<>>

Edit ==
    /\ \/ \E row \in Rows : now' = Append(now, row)
       \/ \E i \in DOMAIN now : now' = RemoveAt(now, i)
       \/ \E i \in DOMAIN now, row \in Rows : now' = ReplaceAt(now, i, row)
    /\ UNCHANGED kept

Keep ==
    /\ kept' = now
    /\ UNCHANGED now

Restart ==
    /\ now' = kept
    /\ UNCHANGED kept

Index == IndexInit /\ [][Edit \/ Keep \/ Restart]_indexVars
=============================================================================
