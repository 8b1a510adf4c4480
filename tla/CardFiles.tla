------------------------------- MODULE CardFiles -------------------------------
(***************************************************************************)
(* Files on a memory card, as the HLE BIOS (PsxBios.c) serves them: a      *)
(* directory of 15 entries and a block of data for each, held in memory    *)
(* (Mcd1Data or Mcd2Data), and the card's file on the host, which SaveMcd  *)
(* writes in part and LoadMcd reads when the program starts.               *)
(*                                                                         *)
(* The two cards are alike and share nothing; this is one of them.  Its    *)
(* only descriptor is FDesc[2] or FDesc[3], whatever files a guest opens.  *)
(***************************************************************************)
EXTENDS Integers

CONSTANTS
  NumEntries,   \* 15, entries of the directory
  Names,        \* names of files
  Free,         \* an entry whose first byte is not 0x5x
  Contents      \* what a block of data may hold

VARIABLES
  dir, data,          \* the card in memory: name and contents of each entry
  fileDir, fileData,  \* the card's file
  mcfile,             \* FDesc[].mcfile: the entry that was opened last, or 0
  handle              \* ghost: the name the guest opened last, if it still exists

memVars == <<dir, data>>
fileVars == <<fileDir, fileData>>
descVars == <<mcfile, handle>>
vars == <<memVars, fileVars, descVars>>

Entries == 1..NumEntries

ASSUME EntryAssumption == NumEntries \in Nat \ {0}
ASSUME NameAssumption == Free \notin Names
ASSUME ContentAssumption == Contents # {}

\* The first entry of a kind, as the loops over the directory find it.
IsFirst(i, P) == i \in P /\ \A j \in P : i <= j
Named(name) == {i \in Entries : dir[i] = name}

------------------------------------------------------------------------------

\* Mutant: the descriptor keeps the entry it had.
OpenKeepsEntry(name) ==
  /\ Named(name) # {}
  /\ handle' = name
  /\ UNCHANGED <<memVars, fileVars, mcfile>>

\* buopen, a file that exists.
Open(name) ==
  /\ \E i \in Entries : IsFirst(i, Named(name)) /\ mcfile' = i
  /\ handle' = name
  /\ UNCHANGED <<memVars, fileVars>>

\* Mutant: the new entry is not saved.
CreateUnsaved(name) ==
  /\ Named(name) = {}
  /\ \E i \in Entries :
       /\ IsFirst(i, Named(Free))
       /\ mcfile' = i
       /\ dir' = [dir EXCEPT ![i] = name]
  /\ handle' = name
  /\ UNCHANGED <<data, fileDir, fileData>>

\* buopen with FCREAT: the first free entry gets the name and is saved.
Create(name) ==
  /\ Named(name) = {}
  /\ \E i \in Entries :
       /\ IsFirst(i, Named(Free))
       /\ mcfile' = i
       /\ dir' = [dir EXCEPT ![i] = name]
       /\ fileDir' = [fileDir EXCEPT ![i] = name]
  /\ handle' = name
  /\ UNCHANGED <<data, fileData>>

\* buwrite, through a descriptor whose file was not deleted; SaveMcd writes
\* what was written.
Write(content) ==
  /\ handle # Free
  /\ data' = [data EXCEPT ![mcfile] = content]
  /\ fileData' = [fileData EXCEPT ![mcfile] = content]
  /\ UNCHANGED <<dir, fileDir, descVars>>

\* budelete: the entry is freed in memory and not saved.
Delete(name) ==
  /\ \E i \in Entries :
       /\ IsFirst(i, Named(name))
       /\ dir' = [dir EXCEPT ![i] = Free]
  /\ handle' = IF handle = name THEN Free ELSE handle
  /\ UNCHANGED <<data, fileVars, mcfile>>

\* _card_write of a frame of the directory, by a guest that has no file open.
CardWrite(i, name) ==
  /\ handle = Free
  /\ dir' = [dir EXCEPT ![i] = name]
  /\ fileDir' = [fileDir EXCEPT ![i] = name]
  /\ UNCHANGED <<data, fileData, descVars>>

\* The program ends or dies, and is started again: LoadMcd and psxBiosInit.
Restart ==
  /\ dir' = fileDir /\ data' = fileData
  /\ mcfile' = 0 /\ handle' = Free
  /\ UNCHANGED fileVars
------------------------------------------------------------------------------

\* LoadMcd of any card.
Init ==
  /\ fileDir \in [Entries -> Names \cup {Free}]
  /\ fileData \in [Entries -> Contents]
  /\ dir = fileDir /\ data = fileData
  /\ mcfile = 0 /\ handle = Free

Next ==
  \/ \E name \in Names : Open(name) \/ Create(name) \/ Delete(name)
  \/ \E content \in Contents : Write(content)
  \/ \E i \in Entries, name \in Names \cup {Free} : CardWrite(i, name)
  \/ Restart

Spec == Init /\ [][Next]_vars

------------------------------------------------------------------------------
(* Properties *)

TypeOK ==
  /\ dir \in [Entries -> Names \cup {Free}]
  /\ fileDir \in [Entries -> Names \cup {Free}]
  /\ data \in [Entries -> Contents] /\ fileData \in [Entries -> Contents]
  /\ mcfile \in 0..NumEntries /\ handle \in Names \cup {Free}

\* Whenever the program ends, the card's file has every file the guest can see
\* in memory, in its entry and with its contents.  (It may have more: a file
\* that was deleted is there again after a restart.)
SavedOnHost ==
  \A i \in Entries :
    dir[i] # Free => fileDir[i] = dir[i] /\ fileData[i] = data[i]

\* The one descriptor of the card leads to the file that was opened last, also
\* when entries were freed and taken again in between.
HandleOwn == handle # Free => mcfile \in Entries /\ dir[mcfile] = handle

\* What is inductive: memory and file never differ in their data, since every
\* write of data is saved at once.
IInv ==
  /\ TypeOK
  /\ data = fileData
  /\ SavedOnHost
  /\ HandleOwn
==============================================================================
