----------------------------- MODULE PageStore ------------------------------
(***************************************************************************)
(* What a buffer pool promises to clients that use it with discipline, in  *)
(* terms of pages only: there are no frames, buffers, strategies or dirty  *)
(* bits.  A page has one current content, which every holder of the page   *)
(* sees and which any holder may change; the disk follows at moments the   *)
(* store chooses, at once when a client asks for it, and completely when   *)
(* the store is closed.  A process that dies leaves the disk, and what is  *)
(* there is then what is current.                                          *)
(***************************************************************************)
CONSTANTS Pages, Content, Blank, Clients, NoPage, Unwritten

VARIABLES
  mode,    \* "up", "closed", "dead", or "void": nothing is promised
  disk,    \* the content of each page on the disk, or Unwritten
  db,      \* the current content of each page, or Unwritten
  fixed,   \* the page each client holds, or NoPage
  sight    \* what each client sees of the page it holds

vars == <<mode, disk, db, fixed, sight>>

Init ==
  /\ mode = "up"
  /\ disk \in [Pages -> Content \cup {Unwritten}]
  /\ db = disk
  /\ fixed = [c \in Clients |-> NoPage]
  /\ sight = [c \in Clients |-> Blank]

\* The disk moves towards the current contents, at some pages; pages it did
\* not have may come to exist, as zeros.
Catchup(pages) ==
  \A p \in pages :
    \/ disk'[p] = disk[p]
    \/ disk'[p] = db[p] /\ db[p] # Unwritten
    \/ disk'[p] = Blank /\ disk[p] = Unwritten

\* A client comes to hold page p, and sees what it is: its current content, or
\* of a page nobody has written yet anything, but the same as its other
\* holders do.
Fix(c, p) ==
  /\ mode = "up" /\ mode' = "up"
  /\ fixed[c] = NoPage
  /\ fixed' = [fixed EXCEPT ![c] = p]
  /\ \A d \in Clients \ {c} : sight'[d] = sight[d]
  /\ sight'[c] \in Content
  /\ db[p] # Unwritten => sight'[c] = db[p]
  /\ \A d \in Clients : fixed[d] = p => sight'[c] = sight[d]
  /\ Catchup(Pages)
  /\ db' = db

Change(c, content) ==
  /\ mode = "up" /\ mode' = "up"
  /\ fixed[c] # NoPage
  /\ db' = [db EXCEPT ![fixed[c]] = content]
  /\ sight' = [d \in Clients |-> IF fixed[d] = fixed[c] THEN content ELSE sight[d]]
  /\ UNCHANGED <<disk, fixed>>

Release(c) ==
  /\ mode = "up" /\ mode' = "up"
  /\ fixed[c] # NoPage
  /\ fixed' = [fixed EXCEPT ![c] = NoPage]
  /\ sight' = [sight EXCEPT ![c] = Blank]
  /\ UNCHANGED <<disk, db>>

\* The page a client holds is on the disk when the call returns.
Force(c) ==
  /\ mode = "up" /\ mode' = "up"
  /\ fixed[c] # NoPage
  /\ disk'[fixed[c]] = sight[c]
  /\ Catchup(Pages \ {fixed[c]})
  /\ UNCHANGED <<db, fixed, sight>>

WriteBack ==
  /\ mode = "up" /\ mode' = "up"
  /\ Catchup(Pages)
  /\ UNCHANGED <<db, fixed, sight>>

\* An orderly end: everything current is on the disk.
Close ==
  /\ mode = "up" /\ mode' = "closed"
  /\ \A c \in Clients : fixed[c] = NoPage
  /\ Catchup(Pages)
  /\ \A p \in Pages : db[p] # Unwritten => disk'[p] = db[p]
  /\ UNCHANGED <<db, fixed, sight>>

Open ==
  /\ mode = "closed" /\ mode' = "up"
  /\ UNCHANGED <<disk, db, fixed, sight>>

\* The process ends, perhaps in the middle of a call.
Die ==
  /\ mode \in {"up", "closed"} /\ mode' = "dead"
  /\ Catchup(Pages)
  /\ fixed' = [c \in Clients |-> NoPage]
  /\ sight' = [c \in Clients |-> Blank]
  /\ db' = disk'

Restart ==
  /\ mode = "dead" /\ mode' = "up"
  /\ UNCHANGED <<disk, db, fixed, sight>>

\* The store gives up its promises, until its process has ended and left some
\* disk.
GiveUp == mode \in {"up", "void"} /\ mode' = "void"

Recover ==
  /\ mode = "void" /\ mode' = "dead"
  /\ db' = disk'
  /\ fixed' = [c \in Clients |-> NoPage]
  /\ sight' = [c \in Clients |-> Blank]

Next ==
  \/ \E c \in Clients :
       \/ \E p \in Pages : Fix(c, p)
       \/ \E content \in Content : Change(c, content)
       \/ Release(c)
       \/ Force(c)
  \/ WriteBack
  \/ Close
  \/ Open
  \/ Die
  \/ Restart
  \/ GiveUp
  \/ Recover

Spec == Init /\ [][Next]_vars

=============================================================================
