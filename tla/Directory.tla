------------------------------ MODULE Directory ------------------------------
(***************************************************************************)
(* One entry of a home node's directory (backend/Simulator/directory.cpp): *)
(* the status of a line and the bit vector of the nodes that hold it, here *)
(* the set of those nodes.  The operators are the two calls the protocol   *)
(* handlers make; the directory itself, one entry per address, is a        *)
(* variable of module Context.                                             *)
(***************************************************************************)
EXTENDS Integers

\* The entry the map does not hold.
NoEntry == [status |-> "ABSENT", processorMask |-> {}]

\* DirectoryEntryStatus, and what an entry over the nodes N may be.
Statuses == {"UNCACHED", "SHARED", "MODIFIED", "EXCLUSIVE"}
Entries(N) == [status : Statuses \cup {"ABSENT"}, processorMask : SUBSET N]

\* lookUpEntry: an entry that is missing is created, UNCACHED and held by nobody.
LookUpEntry(e) ==
  IF e = NoEntry THEN [status |-> "UNCACHED", processorMask |-> {}] ELSE e

\* Mutants of UpdateEntry: the first forgets the other sharers, the second keeps them.
UpdateEntryForgets(e, status, procID) ==
  IF status = "UNCACHED" THEN NoEntry ELSE [status |-> status, processorMask |-> {procID}]
UpdateEntryKeeps(e, status, procID) ==
  IF status = "UNCACHED" THEN NoEntry
                         ELSE [status |-> status, processorMask |-> e.processorMask \cup {procID}]

\* updateEntry: a missing entry takes the status as it is and holds procID only;
\* SHARED adds procID, MODIFIED and EXCLUSIVE leave procID alone, and UNCACHED
\* erases the entry.
UpdateEntry(e, status, procID) ==
  CASE e = NoEntry -> [status |-> status, processorMask |-> {procID}]
    [] e # NoEntry /\ status = "SHARED" ->
         [status |-> status, processorMask |-> e.processorMask \cup {procID}]
    [] e # NoEntry /\ status \in {"MODIFIED", "EXCLUSIVE"} ->
         [status |-> status, processorMask |-> {procID}]
    [] OTHER -> NoEntry

\* The scan of the bit vector for the first holder of the line.
Owner(e) ==
  CHOOSE n \in e.processorMask : \A m \in e.processorMask : n <= m

==============================================================================
