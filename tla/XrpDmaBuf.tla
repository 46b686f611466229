------------------------------ MODULE XrpDmaBuf ------------------------------
(***************************************************************************)
(* Imported dma-bufs: the list of a device, its reference counts and the   *)
(* attachments (driver/xrp-kernel/xvp_main.c), as programs use them        *)
(* through driver/xrp-user/xrp-host/hosted/xrp_linux.c.                    *)
(*                                                                         *)
(* A program imports file descriptors that are dma-bufs and releases what  *)
(* it has imported; each file has one thread.  The exporter's side, the    *)
(* mapping for the user and the cache maintenance have no state here.      *)
(***************************************************************************)
EXTENDS XrpDevice, Sequences, SequencesExt

CONSTANTS
  Item,       \* what kzalloc may return for the list
  DmaBuf,
  MaxImport   \* bound: imports in a behaviour

ASSUME DmaAssumption ==
  /\ Nil \notin Item /\ Nil \notin DmaBuf /\ MaxImport \in Nat
  /\ \A s \in Scopes : s.dma \subseteq DmaBuf

VARIABLES
  list,       \* xvp->dma_buf_list
  item,       \* the memory of its items
  held,       \* the driver's references to each dma-buf
  dpc, at,    \* where a file's thread is, its dma-buf and item
  got,        \* imports a program has not released
  imports,    \* history: imports begun
  lapsed,     \* history: imports of files that were closed
  overput,    \* history: references dropped that were not held
  mess        \* history: what has gone wrong with the list

dmaVars == <<list, item, held, dpc, at, got, imports, lapsed, overput, mess>>

history == <<imports, lapsed, overput, mess>>

NoItem == [buf |-> Nil, ref |-> 0, attached |-> FALSE]
Zero   == [b \in DmaBuf |-> 0]

DmaInit ==
  /\ list = <<>> /\ item = [x \in Item |-> NoItem]
  /\ held = Zero /\ lapsed = Zero /\ overput = Zero
  /\ dpc = [f \in File |-> "idle"]
  /\ at = [f \in File |-> [buf |-> Nil, item |-> Nil]]
  /\ got = [f \in File |-> Zero]
  /\ imports = 0 /\ mess = {}

\* The first item of the list for a dma-buf, or nothing.
Search(b) ==
  LET i == SelectInSeq(list, LAMBDA x : item[x].buf = b)
  IN IF i = 0 THEN Nil ELSE list[i]

InUse(x) == item[x] # NoItem

Begin(f, b) ==
  /\ wild = {} /\ f \in opened /\ b \in scope.dma /\ dpc[f] = "idle"

Enter(f, to, b, x) ==
  /\ dpc' = [dpc EXCEPT ![f] = to]
  /\ at' = [at EXCEPT ![f] = [buf |-> b, item |-> x]]

Leave(f) == Enter(f, "idle", Nil, Nil)

DmaFault(what) ==
  /\ wild' = {what}
  /\ UNCHANGED <<list, item, held, dpc, at, got, history>>

Hold(b, n) == held' = [held EXCEPT ![b] = @ + n]

\* Variant: the item is freed and stays on the list.
ReleaseUnlinked(x) ==
  /\ item' = [item EXCEPT ![x] = IF @.ref = 1 THEN NoItem ELSE [@ EXCEPT !.ref = @ - 1]]
  /\ UNCHANGED list

\* xrp_release_dma_buf_item
ReleaseItem(x) ==
  IF item[x].ref = 1
  THEN item' = [item EXCEPT ![x] = NoItem] /\ list' = RemoveFirst(list, x)
  ELSE item' = [item EXCEPT ![x].ref = @ - 1] /\ UNCHANGED list

-----------------------------------------------------------------------------
(* xrp_ioctl_dma_buf_import.                                               *)

\* A reference to the dma-buf, and a look at the list; before the end of the
\* probe there is none.
ImportLookup(f, b) ==
  /\ Begin(f, b) /\ imports < MaxImport
  /\ IF stage = "node" THEN DmaFault("list")
     ELSE LET x == Search(b)
          IN /\ Hold(b, 1) /\ imports' = imports + 1
             /\ IF x = Nil
                THEN Enter(f, "attach", b, Nil) /\ UNCHANGED <<item, mess>>
                ELSE /\ Enter(f, "known", b, x)
                     /\ item' = [item EXCEPT ![x].ref = @ + 1]
                     /\ mess' = mess \cup {"again"}
             /\ UNCHANGED <<list, got, lapsed, overput, wild>>
  /\ UNCHANGED <<scope, stage, rpm, power, opened>>

\* A dma-buf that is not listed is attached, mapped and listed.  The kernel's
\* functions return error pointers, which the tests for NULL let through.
\* Without memory for the item the attachment stays.
ImportAttach(f) ==
  /\ wild = {} /\ dpc[f] = "attach"
  /\ \/ DmaFault("err_ptr")
     \/ /\ Leave(f) /\ Hold(at[f].buf, -1)
        /\ mess' = mess \cup {"no_memory"}
        /\ UNCHANGED <<list, item, got, imports, lapsed, overput, wild>>
     \/ \E x \in Item :
          /\ ~InUse(x)
          /\ item' = [item EXCEPT ![x] = [buf |-> at[f].buf, ref |-> 1,
                                          attached |-> TRUE]]
          /\ mess' = IF Search(at[f].buf) = Nil THEN mess ELSE mess \cup {"again"}
          /\ list' = Append(list, x)
          /\ Enter(f, "check", at[f].buf, x)
          /\ UNCHANGED <<held, got, imports, lapsed, overput, wild>>
  /\ UNCHANGED <<scope, stage, rpm, power, opened>>

\* One that is listed is counted once more.
ImportKnown(f) ==
  /\ wild = {} /\ dpc[f] = "known"
  /\ item' = [item EXCEPT ![at[f].item].ref = @ + 1]
  /\ Enter(f, "check", at[f].buf, at[f].item)
  /\ UNCHANGED <<list, held, got, history, deviceVars>>

\* xrp_import_dma_buf has the buffer.
Imported(f) == got' = [got EXCEPT ![f][at[f].buf] = @ + 1]

\* The rest: success; more than one piece; or the result cannot be copied out,
\* and the reference is dropped twice.
ImportCheck(f) ==
  /\ wild = {} /\ dpc[f] = "check"
  /\ IF ~InUse(at[f].item) \/ ~item[at[f].item].attached THEN DmaFault("dma_item")
     ELSE /\ Leave(f)
          /\ \/ /\ Imported(f)
                /\ UNCHANGED <<list, item, held, overput, mess>>
             \/ /\ ReleaseItem(at[f].item) /\ Hold(at[f].buf, -1)
                /\ mess' = mess \cup {"pieces"}
                /\ UNCHANGED <<got, overput>>
             \/ /\ ReleaseItem(at[f].item) /\ Hold(at[f].buf, -2)
                /\ mess' = mess \cup {"fault"}
                /\ overput' = [overput EXCEPT ![at[f].buf] = @ + 1]
                /\ UNCHANGED got
          /\ UNCHANGED <<imports, lapsed, wild>>
  /\ UNCHANGED <<scope, stage, rpm, power, opened>>

-----------------------------------------------------------------------------
(* xrp_ioctl_dma_buf_release.                                              *)

\* xrp_search_dma_buf finds the item, without counting it.
ReleaseSearch(f, b) ==
  /\ Begin(f, b) /\ got[f][b] > 0 /\ Search(b) # Nil
  /\ Enter(f, "detach", b, Search(b))
  /\ UNCHANGED <<list, item, held, got, history, deviceVars>>

\* xrp_release_dma_buf has given the buffer back.
Released(f) == got' = [got EXCEPT ![f][at[f].buf] = @ - 1]

\* Unmap, detach and put.
ReleaseDetach(f) ==
  /\ wild = {} /\ dpc[f] = "detach"
  /\ IF ~InUse(at[f].item) \/ ~item[at[f].item].attached THEN DmaFault("dma_item")
     ELSE /\ item' = [item EXCEPT ![at[f].item].attached = FALSE]
          /\ Hold(at[f].buf, -1) /\ Released(f)
          /\ Enter(f, "drop", at[f].buf, at[f].item)
          /\ UNCHANGED <<list, history, wild>>
  /\ UNCHANGED <<scope, stage, rpm, power, opened>>

ReleaseDrop(f) ==
  /\ wild = {} /\ dpc[f] = "drop"
  /\ ReleaseItem(at[f].item) /\ Leave(f)
  /\ UNCHANGED <<held, got, history, deviceVars>>

\* xvp_close does nothing about imports.
CloseDma(f) ==
  /\ dpc[f] = "idle"
  /\ got' = [got EXCEPT ![f] = Zero]
  /\ lapsed' = [b \in DmaBuf |-> lapsed[b] + got[f][b]]
  /\ UNCHANGED <<list, item, held, dpc, at, imports, overput, mess>>

-----------------------------------------------------------------------------

DmaTypeOK ==
  /\ list \in Seq(Item)
  /\ item \in [Item -> [buf : DmaBuf \cup {Nil}, ref : Nat, attached : BOOLEAN]]
  /\ held \in [DmaBuf -> Int]
  /\ dpc \in [File -> {"idle", "attach", "known", "check", "detach", "drop"}]
  /\ at \in [File -> [buf : DmaBuf \cup {Nil}, item : Item \cup {Nil}]]
  /\ got \in [File -> [DmaBuf -> Nat]]
  /\ imports \in 0 .. MaxImport
  /\ lapsed \in [DmaBuf -> Nat] /\ overput \in [DmaBuf -> Nat]
  /\ mess \subseteq {"again", "no_memory", "pieces", "fault"}

\* The files with a call that holds a reference of its own.
Importing(b) == {f \in File : dpc[f] \in {"attach", "known", "check"} /\ at[f].buf = b}

\* The imports of a dma-buf that programs have not released.
Unreleased(b) == UNION {{f} \X (1 .. got[f][b]) : f \in File}

HeldAccounted ==
  \A b \in DmaBuf :
    held[b] = Cardinality(Unreleased(b)) + Cardinality(Importing(b))
              + lapsed[b] - overput[b]

ItemsInUse ==
  \A f \in File :
    /\ dpc[f] = "drop" => InUse(at[f].item)
    /\ dpc[f] = "known" /\ mess \cap {"pieces", "fault"} = {} =>
         InUse(at[f].item)

ListSound ==
  mess = {} =>
    /\ "dma_item" \notin wild
    /\ \A i, j \in DOMAIN list : item[list[i]].buf = item[list[j]].buf => i = j
    /\ \A x \in Item : InUse(x) <=> x \in ToSet(list)
    /\ \A x \in ToSet(list) :
         /\ item[x].ref = 1
         /\ item[x].attached \/ \E f \in File : dpc[f] = "drop" /\ at[f].item = x

\* The driver has one reference to a dma-buf for each import that was not
\* released and each that is under way, short of those an import has dropped
\* twice because its result could not be copied out.  An item is in use when a
\* release drops it and, as long as no import has given a reference back after
\* it had found the item, when an import counts it again.  As long as no dma-buf
\* is imported while it is listed, and no import fails, each is listed at most
\* once, the items are in use and counted once, they are attached unless a
\* release is about to drop them, and nothing that is gone is touched.
DmaBufsAccounted == HeldAccounted /\ ItemsInUse /\ ListSound

-----------------------------------------------------------------------------
(* Strengthenings: what makes the properties inductive.                    *)

\* What is attached is listed, once, and what is listed is in use.
Listed ==
  /\ \A i, j \in DOMAIN list : list[i] = list[j] => i = j
  /\ \A x \in ToSet(list) : item[x].buf # Nil /\ item[x].ref > 0
  /\ \A x \in Item : item[x].attached => x \in ToSet(list)

Dropping(x) == \E f \in File : dpc[f] = "drop" /\ at[f].item = x

\* A call has its dma-buf and its item, a release has an import to release, and
\* what one release has detached no other does.
Threads ==
  /\ \A f \in File :
       /\ dpc[f] # "idle" => at[f].buf \in DmaBuf
       /\ dpc[f] \in {"known", "check", "detach", "drop"} => at[f].item \in Item
       /\ dpc[f] = "detach" => got[f][at[f].buf] > 0
       /\ dpc[f] = "drop" =>
            at[f].item \in ToSet(list) /\ ~item[at[f].item].attached
  /\ \A f, g \in File :
       dpc[f] = "drop" /\ dpc[g] = "drop" /\ at[f].item = at[g].item => f = g

\* The reference of the search outlasts the one of the attachment.
Counted ==
  mess \cap {"pieces", "fault"} = {} =>
    \A f \in File : dpc[f] = "known" =>
      /\ item[at[f].item].ref > 0
      /\ item[at[f].item].attached \/ Dropping(at[f].item) =>
           item[at[f].item].ref > 1

\* Without a second import of what is listed, an import that succeeded, or that
\* has only its result to check, is the only one of its dma-buf.
Single ==
  mess = {} =>
    /\ \A f \in File :
         /\ dpc[f] # "known"
         /\ dpc[f] \in {"check", "detach", "drop"} =>
              at[f].item \in ToSet(list) /\ item[at[f].item].buf = at[f].buf
         /\ dpc[f] = "check" =>
              /\ item[at[f].item].attached
              /\ \A g \in File :
                   /\ got[g][at[f].buf] = 0
                   /\ dpc[g] = "check" /\ at[g].buf = at[f].buf => f = g
    /\ \A f \in File, b \in DmaBuf : got[f][b] > 0 =>
         /\ got[f][b] = 1
         /\ \E x \in ToSet(list) : item[x].buf = b /\ item[x].attached
         /\ \A g \in File : got[g][b] > 0 => f = g

DmaInv == DmaTypeOK /\ Listed /\ Threads /\ Counted /\ Single /\ ListSound
=============================================================================
