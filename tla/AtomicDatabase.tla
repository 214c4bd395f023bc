----------------------------- MODULE AtomicDatabase -----------------------------
(***************************************************************************)
(* What a database file promises to its connections, whatever journal      *)
(* implements it: a reader sees one image of the database until it ends,   *)
(* one connection at a time prepares a new image, a commit replaces the    *)
(* whole image at once, and neither the death of a connection nor a loss   *)
(* of power leaves anything between two images.  With synchronous=NORMAL,  *)
(* the default of the library, a restart may bring back an image that      *)
(* recent commits have replaced, or find the image of a commit that was    *)
(* about to be made visible.                                               *)
(***************************************************************************)
CONSTANTS Conns, None

VARIABLES
    image,          \* the committed image
    alternatives,   \* images that a restart may find, if not the committed one
    snapshot,       \* the image a connection reads, or None
    draft           \* the image a connection prepares, or None

vars == <<image, alternatives, snapshot, draft>>

BeginRead(c) ==
    /\ snapshot[c] = None
    /\ snapshot' = [snapshot EXCEPT ![c] = image]
    /\ UNCHANGED <<image, alternatives, draft>>

\* A writer starts from the committed image, not from an older one.
BeginWrite(c) ==
    /\ snapshot[c] = image
    /\ \A d \in Conns : draft[d] = None
    /\ draft' = [draft EXCEPT ![c] = image]
    /\ UNCHANGED <<image, alternatives, snapshot>>

\* Any other image; the committed one does not show it.
Write(c) ==
    /\ draft[c] # None
    /\ draft' = [draft EXCEPT ![c] = draft'[c]] /\ draft'[c] # None
    /\ UNCHANGED <<image, alternatives, snapshot>>

\* The draft is complete, and a restart may find it.
Prepare(c) ==
    /\ draft[c] # None
    /\ alternatives' \subseteq alternatives \cup {image, draft[c]}
    /\ UNCHANGED <<image, snapshot, draft>>

Commit(c) ==
    /\ draft[c] # None
    /\ image' = draft[c]
    /\ snapshot' = [snapshot EXCEPT ![c] = draft[c]]
    /\ draft' = [draft EXCEPT ![c] = None]
    /\ alternatives' \subseteq alternatives \cup {image}

Rollback(c) ==
    /\ draft[c] # None
    /\ draft' = [draft EXCEPT ![c] = None]
    /\ UNCHANGED <<image, alternatives, snapshot>>

\* The end of a read, an error that ends a transaction, the death of the process.
Leave(c) ==
    /\ snapshot' = [snapshot EXCEPT ![c] = None]
    /\ draft' = [draft EXCEPT ![c] = None]
    /\ UNCHANGED <<image, alternatives>>

\* Commits become durable, prepared drafts are given up.
Settle ==
    /\ UNCHANGED <<snapshot, draft, image>>
    /\ alternatives' \subseteq alternatives \cup {image}

\* After a loss of power, or the death of all connections.
Restart ==
    /\ snapshot' = [c \in Conns |-> None]
    /\ draft' = [c \in Conns |-> None]
    /\ image' \in alternatives \cup {image}
    /\ alternatives' \subseteq alternatives \cup {image}

Init ==
    /\ alternatives \subseteq {image}
    /\ snapshot = [c \in Conns |-> None]
    /\ draft = [c \in Conns |-> None]

Next ==
    \/ Settle \/ Restart
    \/ \E c \in Conns : \/ Write(c) \/ BeginRead(c) \/ BeginWrite(c) \/ Prepare(c) \/ Commit(c)
                        \/ Rollback(c) \/ Leave(c)

Spec == Init /\ [][Next]_vars
=============================================================================
