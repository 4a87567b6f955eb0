------------------------------ MODULE KeyPair ------------------------------
(***************************************************************************)
(* The key pair that signs and verifies access tokens (core/security.py,   *)
(* _keypair) on a machine without provisioned keys: two files in the       *)
(* temporary directory, read by every process of the machine that finds    *)
(* both, and written by the one that does not.  A process keeps what it    *)
(* got until it stops (lru_cache).  write_text opens the file, which       *)
(* empties it, and writes after.                                           *)
(***************************************************************************)
CONSTANTS
    Processes,   \* servers and test runs on one machine
    Keys,        \* bound on the keys generated
    Missing,     \* no such file
    Empty        \* a file opened and not written

KeyPairAssumption == Missing \notin Keys /\ Empty \notin Keys

VARIABLES
    private, public,   \* contents of private.pem and public.pem
    proc,              \* the processes and the pair each of them holds
    used,              \* keys generated so far
    signed,            \* history: keys that processes have signed with
    torn,              \* history: a pair was written while another process
                       \* was at it, or left with an empty public.pem
    lost               \* history: a pair could not be written

vars == <<private, public, proc, used, signed, torn, lost>>

Contents == Keys \cup {Missing, Empty}
Reading == {"readPrivate", "readPublic"}
Writing == {"openPrivate", "writePrivate", "openPublic", "writePublic"}
Down == [pc |-> "down", private |-> Missing, public |-> Missing]

Init ==
    /\ private = Missing /\ public = Missing
    /\ proc = [p \in Processes |-> Down]
    /\ used = {} /\ signed = {} /\ torn = FALSE /\ lost = FALSE

At(p, pc) == proc[p].pc = pc
Goto(p, pc) == proc' = [proc EXCEPT ![p].pc = pc]

(* Another process is reading or writing the files. *)
Shared(p) == \E q \in Processes \ {p} : proc[q].pc \in Reading \cup Writing

-----------------------------------------------------------------------------

(* The first token that the process signs or verifies. *)
Start(p) ==
    /\ At(p, "down")
    /\ Goto(p, "check")
    /\ UNCHANGED <<private, public, used, signed, torn, lost>>

(* Mutant: only the private key is looked for. *)
PrivateFound == private # Missing
(* Mutant: every process draws a pair of its own. *)
NeverFound == FALSE
Found == private # Missing /\ public # Missing

Reuse(p) ==
    /\ At(p, "check") /\ Found
    /\ Goto(p, "readPrivate")
    /\ torn' = (torn \/ \E q \in Processes \ {p} : proc[q].pc \in Writing)
    /\ UNCHANGED <<private, public, used, signed, lost>>

ReadPrivate(p) ==
    /\ At(p, "readPrivate")
    /\ proc' = [proc EXCEPT ![p].pc = "readPublic", ![p].private = private]
    /\ UNCHANGED <<private, public, used, signed, torn, lost>>

ReadPublic(p) ==
    /\ At(p, "readPublic")
    /\ proc' = [proc EXCEPT ![p].pc = "ready", ![p].public = public]
    /\ signed' = signed \cup {proc[p].private}
    /\ UNCHANGED <<private, public, used, torn, lost>>

Generate(p, k) ==
    /\ At(p, "check") /\ ~Found
    /\ k \notin used /\ used' = used \cup {k}
    /\ proc' = [proc EXCEPT ![p] =
                  [pc |-> "openPrivate", private |-> k, public |-> k]]
    /\ torn' = (torn \/ Shared(p))
    /\ UNCHANGED <<private, public, signed, lost>>

WritePrivate(p) ==
    \/ /\ At(p, "openPrivate") /\ Goto(p, "writePrivate")
       /\ private' = Empty
       /\ UNCHANGED <<public, used, signed, torn, lost>>
    \/ /\ At(p, "writePrivate") /\ Goto(p, "openPublic")
       /\ private' = proc[p].private
       /\ UNCHANGED <<public, used, signed, torn, lost>>

WritePublic(p) ==
    \/ /\ At(p, "openPublic") /\ Goto(p, "writePublic")
       /\ public' = Empty
       /\ UNCHANGED <<private, used, signed, torn, lost>>
    \/ /\ At(p, "writePublic") /\ Goto(p, "ready")
       /\ public' = proc[p].public
       /\ signed' = signed \cup {proc[p].private}
       /\ UNCHANGED <<private, used, torn, lost>>

(* An OSError of mkdir or of a write is swallowed: the pair serves this    *)
(* process, and whatever was opened stays behind.                          *)
CannotPersist(p) ==
    /\ proc[p].pc \in Writing
    /\ Goto(p, "ready")
    /\ signed' = signed \cup {proc[p].private}
    /\ torn' = (torn \/ At(p, "writePublic")) /\ lost' = TRUE
    /\ UNCHANGED <<private, public, used>>

(* The process stops or is killed, anywhere; it may start again. *)
Stop(p) ==
    /\ ~At(p, "down")
    /\ proc' = [proc EXCEPT ![p] = Down]
    /\ torn' = (torn \/ At(p, "writePublic"))
    /\ UNCHANGED <<private, public, used, signed, lost>>

Next ==
    \E p \in Processes :
        \/ Start(p) \/ Reuse(p) \/ ReadPrivate(p) \/ ReadPublic(p)
        \/ \E k \in Keys : Generate(p, k)
        \/ WritePrivate(p) \/ WritePublic(p) \/ CannotPersist(p) \/ Stop(p)

Spec == Init /\ [][Next]_vars

-----------------------------------------------------------------------------
(* Properties. *)

TypeOK ==
    /\ private \in Contents /\ public \in Contents
    /\ proc \in [Processes ->
                   [pc: {"down", "check", "ready"} \cup Reading \cup Writing,
                    private: Contents, public: Contents]]
    /\ used \subseteq Keys /\ signed \subseteq Contents
    /\ torn \in BOOLEAN /\ lost \in BOOLEAN

(* A process verifies what it signs: the two keys it holds are one pair,   *)
(* also after a process died between the two files.  _keypair has no lock  *)
(* and does not replace a file in one step, so this needs that nobody else *)
(* was at the files, and that public.pem was not left empty.               *)
PairMatches ==
    \A p \in Processes :
        At(p, "ready") /\ ~torn =>
            proc[p].private \in Keys /\ proc[p].public = proc[p].private

(* Tokens survive restarts (security.py:96): as long as the pair could be  *)
(* written, all processes sign with one key, whenever they start.          *)
TokensSurviveRestart == torn \/ lost \/ \A j, k \in signed : j = k
=============================================================================
