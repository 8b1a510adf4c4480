--------------------------- MODULE CardFilesProofs ---------------------------
(***************************************************************************)
(* Proofs about CardFiles.tla, for every size of the directory, every set  *)
(* of names and every card the program starts with.                        *)
(***************************************************************************)
EXTENDS CardFiles, TLAPS

\* A program that has just read its card is in the invariant.
LEMMA InitIInv == Init => IInv
BY EntryAssumption DEF Init, IInv, TypeOK, SavedOnHost, HandleOwn

\* Opening a file that exists.
LEMMA OpenKeeps ==
  ASSUME IInv, NEW name \in Names, Open(name)
  PROVE  IInv'
BY DEF Open, IsFirst, Named, Entries, IInv, TypeOK, SavedOnHost, HandleOwn,
       memVars, fileVars

\* A new file takes an entry no open file has, in memory and on the host.
LEMMA CreateKeeps ==
  ASSUME IInv, NEW name \in Names, Create(name)
  PROVE  IInv'
<1>1. PICK i \in Entries :
        /\ mcfile' = i
        /\ dir' = [dir EXCEPT ![i] = name]
        /\ fileDir' = [fileDir EXCEPT ![i] = name]
  BY DEF Create
<1>2. handle' = name /\ data' = data /\ fileData' = fileData
  BY DEF Create
<1>3. TypeOK'
  BY <1>1, <1>2 DEF Entries, IInv, TypeOK
<1>4. SavedOnHost'
  BY <1>1, <1>2 DEF IInv, TypeOK, SavedOnHost
<1>5. HandleOwn'
  BY <1>1, <1>2 DEF IInv, TypeOK, HandleOwn
<1>6. QED
  BY <1>2, <1>3, <1>4, <1>5 DEF IInv

\* What is written is saved before the call returns.
LEMMA WriteKeeps ==
  ASSUME IInv, NEW content \in Contents, Write(content)
  PROVE  IInv'
<1>1. data' = [data EXCEPT ![mcfile] = content] /\ fileData' = data'
  BY DEF Write, IInv
<1>2. UNCHANGED <<dir, fileDir, mcfile, handle>>
  BY DEF Write, descVars
<1>3. TypeOK'
  BY <1>1, <1>2 DEF IInv, TypeOK
<1>4. SavedOnHost'
  BY <1>1, <1>2 DEF IInv, SavedOnHost
<1>5. HandleOwn'
  BY <1>2 DEF IInv, HandleOwn
<1>6. QED
  BY <1>1, <1>3, <1>4, <1>5 DEF IInv

\* The entry that is freed is not that of another file that is open.
LEMMA DeleteKeeps ==
  ASSUME IInv, NEW name \in Names, Delete(name)
  PROVE  IInv'
<1>1. PICK i \in Entries : dir[i] = name /\ dir' = [dir EXCEPT ![i] = Free]
  BY DEF Delete, IsFirst, Named
<1>2. UNCHANGED <<data, fileDir, fileData, mcfile>>
  BY DEF Delete, fileVars
<1>3. handle' = IF handle = name THEN Free ELSE handle
  BY DEF Delete
<1>4. TypeOK'
  BY <1>1, <1>2, <1>3 DEF IInv, TypeOK
<1>5. SavedOnHost'
  BY <1>1, <1>2 DEF IInv, TypeOK, SavedOnHost
<1>6. HandleOwn'
  BY <1>1, <1>2, <1>3 DEF IInv, TypeOK, HandleOwn
<1>7. QED
  BY <1>2, <1>4, <1>5, <1>6 DEF IInv

\* A frame of the directory written past the file calls is saved as well.
LEMMA CardWriteKeeps ==
  ASSUME IInv, NEW i \in Entries, NEW name \in Names \cup {Free}, CardWrite(i, name)
  PROVE  IInv'
<1>1. /\ dir' = [dir EXCEPT ![i] = name] /\ fileDir' = [fileDir EXCEPT ![i] = name]
      /\ UNCHANGED <<data, fileData, mcfile, handle>> /\ handle = Free
  BY DEF CardWrite, descVars
<1>2. TypeOK' /\ SavedOnHost' /\ HandleOwn'
  BY <1>1 DEF IInv, TypeOK, SavedOnHost, HandleOwn
<1>3. QED
  BY <1>1, <1>2 DEF IInv

\* Every step keeps the invariant, the end of the program at any point included.
LEMMA StepIInv == IInv /\ [Next]_vars => IInv'
<1> SUFFICES ASSUME IInv, [Next]_vars PROVE IInv'
  OBVIOUS
<1>1. ASSUME NEW name \in Names, Open(name) PROVE IInv'
  BY <1>1, OpenKeeps
<1>2. ASSUME NEW name \in Names, Create(name) PROVE IInv'
  BY <1>2, CreateKeeps
<1>3. ASSUME NEW name \in Names, Delete(name) PROVE IInv'
  BY <1>3, DeleteKeeps
<1>4. ASSUME NEW content \in Contents, Write(content) PROVE IInv'
  BY <1>4, WriteKeeps
<1>5. ASSUME NEW i \in Entries, NEW name \in Names \cup {Free}, CardWrite(i, name)
      PROVE  IInv'
  BY <1>5, CardWriteKeeps
<1>6. CASE Restart
  BY <1>6, EntryAssumption DEF Restart, IInv, TypeOK, SavedOnHost, HandleOwn, fileVars
<1>7. CASE UNCHANGED vars
  BY <1>7 DEF vars, memVars, fileVars, descVars, IInv, TypeOK, SavedOnHost, HandleOwn
<1>8. QED
  BY <1>1, <1>2, <1>3, <1>4, <1>5, <1>6, <1>7 DEF Next

\* Memory and file agree on the data of the card at every moment, and the
\* invariant holds whatever the guest does.
THEOREM InvariantHolds == Spec => []IInv
BY InitIInv, StepIInv, PTL DEF Spec

\* Whenever the program ends, the card's file has every file the guest can see,
\* with its contents.
THEOREM FilesSaved == Spec => []SavedOnHost
<1>1. IInv => SavedOnHost
  BY DEF IInv
<1>2. QED
  BY <1>1, InvariantHolds, PTL

\* The descriptor of the card leads to the file that was opened last.
THEOREM HandlesLead == Spec => []HandleOwn
<1>1. IInv => HandleOwn
  BY DEF IInv
<1>2. QED
  BY <1>1, InvariantHolds, PTL
==============================================================================
