-------------------------------- MODULE Nodes --------------------------------
(***************************************************************************)
(* internal/nettail/nodes.go: the pairing registry.  A code is issued for  *)
(* a name, approved within its ten minutes, and becomes a node.  Every     *)
(* method holds r.mu from end to end and is one step; the registry in      *)
(* memory is read from the file once, by the first method called, and      *)
(* written over it (truncate, then write) by every change.                 *)
(*                                                                         *)
(* Pairings are numbered as they are issued, and a node has the number of  *)
(* the pairing it came from.                                               *)
(***************************************************************************)
EXTENDS Integers

CONSTANTS MaxPairings,  \* bound: codes drawn
          MaxFaults     \* bound: failing reads and writes

ASSUME NodeBounds == MaxPairings \in Nat /\ MaxFaults \in Nat

VARIABLES ndMem,      \* r.loaded, r.nodes, r.pending
          ndDisk,     \* the file: "none", "ok" or "torn", and what it holds
          ndIssued,   \* codes drawn
          ndExpired,  \* pairings past their Expires
          ndFaults,   \* failing reads and writes so far
          ndTold,     \* pairings whose code was returned (history)
          ndAcks,     \* pairing |-> times Approve returned true (history)
          ndRemoved,  \* nodes that were removed (history)
          ndHarmed    \* the file was cut short or could not be read (history)

ndVars == <<ndMem, ndDisk, ndIssued, ndExpired, ndFaults,
            ndTold, ndAcks, ndRemoved, ndHarmed>>

Pairings == 1..MaxPairings

NdTypeOK ==
  /\ ndMem     \in [loaded : BOOLEAN, nodes : SUBSET Pairings, pending : SUBSET Pairings]
  /\ ndDisk    \in [is : {"none", "ok", "torn"}, nodes : SUBSET Pairings, pending : SUBSET Pairings]
  /\ ndIssued  \in 0..MaxPairings
  /\ ndExpired \in SUBSET Pairings
  /\ ndFaults  \in 0..MaxFaults
  /\ ndTold    \in SUBSET Pairings
  /\ ndAcks    \in [Pairings -> 0..1]
  /\ ndRemoved \in SUBSET Pairings
  /\ ndHarmed  \in BOOLEAN

NdUnread == [loaded |-> FALSE, nodes |-> {}, pending |-> {}]

NdInit ==
  /\ ndMem     = NdUnread
  /\ ndDisk    = [is |-> "none", nodes |-> {}, pending |-> {}]
  /\ ndIssued  = 0
  /\ ndExpired = {}
  /\ ndFaults  = 0
  /\ ndTold    = {}
  /\ ndAcks    = [i \in Pairings |-> 0]
  /\ ndRemoved = {}
  /\ ndHarmed  = FALSE

----------------------------------------------------------------------------
NdFault == ndFaults < MaxFaults /\ ndFaults' = ndFaults + 1

NdUnexpired(P) == P \ ndExpired

\* The registry a method works on, once the file could be read.
NdLoaded ==
  IF ndMem.loaded THEN ndMem
  ELSE [loaded |-> TRUE, nodes |-> ndDisk.nodes, pending |-> NdUnexpired(ndDisk.pending)]

NdReadable == ndMem.loaded \/ ndDisk.is # "torn"

\* The first method finds a file it cannot read or parse and returns an error;
\* the registry counts as loaded, and is empty, from then on.
NdLoadFails ==
  /\ ~ndMem.loaded
  /\ \/ ndDisk.is = "torn" /\ UNCHANGED ndFaults
     \/ ndDisk.is = "ok" /\ NdFault
  /\ ndMem'    = [NdUnread EXCEPT !.loaded = TRUE]
  /\ ndHarmed' = TRUE
  /\ UNCHANGED <<ndDisk, ndIssued, ndExpired, ndTold, ndAcks, ndRemoved>>

NdSaved(m) ==
  /\ ndDisk' = [is |-> "ok", nodes |-> m.nodes, pending |-> m.pending]
  /\ UNCHANGED <<ndFaults, ndHarmed>>

\* The file cannot be opened, or is truncated and not written to its end.
NdSaveFails ==
  /\ NdFault
  /\ \/ UNCHANGED <<ndDisk, ndHarmed>>
     \/ ndDisk' = [is |-> "torn", nodes |-> {}, pending |-> {}] /\ ndHarmed' = TRUE

\* A code not pending is drawn; it is taken back when it cannot be saved.
NdPair ==
  /\ NdReadable /\ ndIssued < MaxPairings
  /\ ndIssued' = ndIssued + 1
  /\ LET i    == ndIssued + 1
         rest == NdUnexpired(NdLoaded.pending)
         m    == [NdLoaded EXCEPT !.pending = rest \cup {i}]
     IN  \/ /\ NdSaved(m)
            /\ ndMem'  = m
            /\ ndTold' = ndTold \cup {i}
         \/ /\ NdSaveFails
            /\ ndMem'  = [m EXCEPT !.pending = rest]
            /\ UNCHANGED ndTold
  /\ UNCHANGED <<ndExpired, ndAcks, ndRemoved>>

\* Mutant: an approved code stays pending.
NdSpentNever(P, i) == P

NdSpent(P, i) == P \ {i}

\* Approve with the code and the name of pairing i; a node that cannot be saved
\* stays in memory although false is returned.
NdApprove(i) ==
  /\ NdReadable
  /\ i \in NdUnexpired(NdLoaded.pending)
  /\ LET m == [NdLoaded EXCEPT !.pending = NdSpent(NdUnexpired(@), i), !.nodes = @ \cup {i}] IN
       /\ ndMem' = m
       /\ \/ NdSaved(m) /\ ndAcks' = [ndAcks EXCEPT ![i] = @ + 1]
          \/ NdSaveFails /\ UNCHANGED ndAcks
  /\ UNCHANGED <<ndIssued, ndExpired, ndTold, ndRemoved>>

\* Approve with a code that is unknown, expired or another name's, and Nodes,
\* read the file too.
NdRead ==
  /\ NdReadable
  /\ \/ ndMem' = NdLoaded
     \/ ndMem' = [NdLoaded EXCEPT !.pending = NdUnexpired(@)]
  /\ UNCHANGED <<ndDisk, ndIssued, ndExpired, ndFaults, ndTold, ndAcks, ndRemoved, ndHarmed>>

\* Touch and Remove return true whether or not the file could be written.
NdTouch(i) ==
  /\ NdReadable /\ i \in NdLoaded.nodes
  /\ ndMem' = NdLoaded
  /\ NdSaved(NdLoaded) \/ NdSaveFails
  /\ UNCHANGED <<ndIssued, ndExpired, ndTold, ndAcks, ndRemoved>>

NdRemove(i) ==
  /\ NdReadable /\ i \in NdLoaded.nodes
  /\ LET m == [NdLoaded EXCEPT !.nodes = @ \ {i}] IN
       /\ ndMem' = m
       /\ NdSaved(m) \/ NdSaveFails
  /\ ndRemoved' = ndRemoved \cup {i}
  /\ UNCHANGED <<ndIssued, ndExpired, ndTold, ndAcks>>

NdExpire(i) ==
  /\ i <= ndIssued /\ i \notin ndExpired
  /\ ndExpired' = ndExpired \cup {i}
  /\ UNCHANGED <<ndMem, ndDisk, ndIssued, ndFaults, ndTold, ndAcks, ndRemoved, ndHarmed>>

\* The process ends and another opens the registry.
NdRestart ==
  /\ ndMem.loaded
  /\ ndMem' = NdUnread
  /\ UNCHANGED <<ndDisk, ndIssued, ndExpired, ndFaults, ndTold, ndAcks, ndRemoved, ndHarmed>>

NdNext ==
  \/ NdLoadFails \/ NdPair \/ NdRead \/ NdRestart
  \/ \E i \in Pairings : NdApprove(i) \/ NdTouch(i) \/ NdRemove(i) \/ NdExpire(i)

NdSpec == NdInit /\ [][NdNext]_ndVars

----------------------------------------------------------------------------
\* An approval that was acknowledged is on disk until the node is removed,
\* through failing saves of later calls and restarts, unless the file itself
\* was cut short or could not be read once; and no code is redeemed twice,
\* although a failed save leaves memory ahead of the file.
NdApprovalsKept ==
  /\ ~ndHarmed => \A i \in Pairings \ ndRemoved : ndAcks[i] > 0 => i \in ndDisk.nodes
  /\ \A i \in Pairings : ndAcks[i] > 0 =>
       /\ i \in ndTold
       /\ i \notin ndDisk.pending \cup ndMem.pending
=============================================================================
