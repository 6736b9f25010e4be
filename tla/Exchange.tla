------------------------------ MODULE Exchange ------------------------------
(***************************************************************************)
(* What the proxy promises of one exchange, without its phases, its clocks *)
(* or its store: masked text leaves only after the journal knows of it,    *)
(* the client gets restored text only after the journal knows it is over,  *)
(* and the text of an answer to a masked request is restored or missing,   *)
(* never what the provider sent.  What is not text, the other lines of an  *)
(* event stream, is relayed as it comes, before the journal knows.         *)
(***************************************************************************)
CONSTANTS
    Requests,    \* request ids
    JournalOpen  \* there is a journal

VARIABLES
    open,       \* exchanges the client waits for
    closed,     \* exchanges that are over
    sent,       \* what the provider was sent
    reply,      \* what the client was given
    relayed,    \* exchanges whose client was also given lines as they came
    started,    \* start entries of the journal
    completed   \* completion entries of the journal

exchange == <<open, closed, sent, reply, relayed, started, completed>>

Init ==
    /\ open = {}
    /\ closed = {}
    /\ sent = [r \in Requests |-> "nothing"]
    /\ reply = [r \in Requests |-> "none"]
    /\ relayed = {}
    /\ started = {}
    /\ completed = {}

(* A fresh request is taken up, or refused at once.                        *)
Begin(r) ==
    /\ r \notin open \cup closed
    /\ \/ /\ open' = open \cup {r}
          /\ UNCHANGED <<closed, reply>>
       \/ /\ closed' = closed \cup {r}
          /\ reply' = [reply EXCEPT ![r] = "error"]
          /\ UNCHANGED open
    /\ UNCHANGED <<sent, started, completed, relayed>>

(* A start entry: the provider has not been sent anything yet.             *)
Announce(r) ==
    /\ r \in open
    /\ sent[r] = "nothing"
    /\ started' = started \cup {r}
    /\ UNCHANGED <<open, closed, sent, reply, completed, relayed>>

(* Masked text goes upstream once, and only behind a start entry.          *)
SendMasked(r) ==
    /\ r \in open
    /\ sent[r] = "nothing"
    /\ JournalOpen => r \in started
    /\ sent' = [sent EXCEPT ![r] = "masked"]
    /\ UNCHANGED <<open, closed, reply, started, completed, relayed>>

(* A body without mappings needs no entry, and has none.                   *)
SendPlain(r) ==
    /\ r \in open
    /\ sent[r] = "nothing"
    /\ r \notin started
    /\ sent' = [sent EXCEPT ![r] = "plain"]
    /\ UNCHANGED <<open, closed, reply, started, completed, relayed>>

(* A completion entry, of a masked request only.                           *)
Complete(r) ==
    /\ r \in open
    /\ sent[r] = "masked"
    /\ completed' = completed \cup {r}
    /\ UNCHANGED <<open, closed, sent, reply, started, relayed>>

(* Lines of a stream that hold no text, as the provider sent them.         *)
Relays(r) == sent[r] = "masked" /\ relayed' = relayed \cup {r}

Relay(r) ==
    /\ r \in open
    /\ Relays(r)
    /\ UNCHANGED <<open, closed, sent, reply, started, completed>>

(* The client is given (more of) its response.                             *)
Answer(r) ==
    /\ r \in open
    /\ \/ /\ sent[r] = "plain"
          /\ reply' = [reply EXCEPT ![r] = "plain"]
       \/ /\ sent[r] = "masked"
          /\ JournalOpen => r \in completed
          /\ reply' = [reply EXCEPT ![r] = "restored"]
    /\ UNCHANGED relayed \/ Relays(r)
    /\ \/ UNCHANGED <<open, closed>>
       \/ open' = open \ {r} /\ closed' = closed \cup {r}
    /\ UNCHANGED <<sent, started, completed>>

(* An error status ends the exchange, unless a response had begun.         *)
Fail(r) ==
    /\ r \in open
    /\ reply[r] = "none" /\ r \notin relayed
    /\ reply' = [reply EXCEPT ![r] = "error"]
    /\ open' = open \ {r}
    /\ closed' = closed \cup {r}
    /\ UNCHANGED <<sent, started, completed, relayed>>

(* The connection breaks for a set of exchanges: one client's, or, when    *)
(* the process dies, everyone's.                                           *)
Break ==
    \E R \in SUBSET open :
        /\ open' = open \ R
        /\ closed' = closed \cup R
        /\ UNCHANGED <<sent, reply, started, completed, relayed>>

Next ==
    \/ \E r \in Requests : \/ Begin(r)
                           \/ Announce(r)
                           \/ SendMasked(r)
                           \/ SendPlain(r)
                           \/ Complete(r)
                           \/ Relay(r)
                           \/ Answer(r)
                           \/ Fail(r)
    \/ Break

Spec == Init /\ [][Next]_exchange
=============================================================================
