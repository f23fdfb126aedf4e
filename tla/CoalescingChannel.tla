-------------------------- MODULE CoalescingChannel --------------------------
(***************************************************************************)
(* What the path from the watcher to the core auth manager promises, with  *)
(* no threads, no batches and no channel: every identifier has a short     *)
(* list of updates that are on their way.  A new update of an identifier   *)
(* is appended to that list, or takes the place of its last element while  *)
(* that one has not arrived; the updates of one identifier arrive one at a *)
(* time and in order.                                                      *)
(* An update is the version a credential is to have, 0 to remove it.       *)
(***************************************************************************)
EXTENDS Naturals, Sequences

CONSTANTS Ids,    \* identifiers of credentials
          Vals    \* what an update can carry, 0 included

VARIABLES todo,  \* todo[i]: the updates of i that have not arrived yet
          core   \* core[i]: the update that arrived last

channelVars == <<todo, core>>

ChannelInit == /\ todo = [i \in Ids |-> <<>>]
               /\ core \in [Ids -> Vals]

(* new is what becomes of the list old when v is handed over. *)
Accepted(old, v, new) ==
  \/ new = Append(old, v)
  \/ /\ old # <<>>
     /\ new = [old EXCEPT ![Len(old)] = v]

(* A sender hands over an update of some of the identifiers. *)
Put ==
  /\ todo' \in [Ids -> Seq(Vals)]
  /\ \A i \in Ids : \/ todo'[i] = todo[i]
                    \/ \E v \in Vals : Accepted(todo[i], v, todo'[i])
  /\ UNCHANGED core

(* The oldest update of i arrives. *)
Deliver(i) ==
  /\ todo[i] # <<>>
  /\ todo' = [todo EXCEPT ![i] = Tail(@)]
  /\ core' = [core EXCEPT ![i] = Head(todo[i])]

ChannelNext == Put \/ \E i \in Ids : Deliver(i)

ChannelSpec == ChannelInit /\ [][ChannelNext]_channelVars
==============================================================================
