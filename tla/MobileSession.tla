--------------------------- MODULE MobileSession ---------------------------
(***************************************************************************)
(* A conversation of an app that embeds the library (lib_mobile.rs).  Each *)
(* turn the app sanitizes what it sends, the model answers with tokens it  *)
(* was shown, and the app restores the answer with the mapping it keeps.   *)
(* A batch call walks over the history one message at a time and holds the *)
(* read guard of the engine throughout; another thread may rotate the key. *)
(* The app either sends the whole history through sanitize_messages or     *)
(* each new message through sanitize_text, and keeps what it was sent.     *)
(***************************************************************************)
EXTENDS Integers, Sequences, FiniteSets, SequencesExt

CONSTANTS
    Numbers,   \* values that FPE encrypts
    Names,     \* values that get a hash token: names, and numbers FPE refuses
    Merging,   \* whether the app merges the mapping of each call into its own
    MaxTalks,  \* bound: turns of a conversation
    MaxSize,   \* bound: values in a message and tokens in an answer
    MaxRotations \* bound: keys

ASSUME SessionAssumption ==
    /\ Merging \in BOOLEAN
    /\ MaxTalks \in Nat /\ MaxSize \in Nat /\ MaxRotations \in Nat \ {0}

VARIABLES
    style,     \* "batch" or "single": the call the app uses
    history,   \* the conversation as the app stores it
    mapping,   \* the entries the app keeps
    call,      \* the sanitize_messages call that runs
    sent,      \* what the model was last shown
    shown,     \* the last answer: what the model wrote, and the user read
    key,       \* number of the present FPE key
    requests,  \* calls so far: the request id
    piiFound   \* total_pii_found

sessionVars == <<style, history, mapping, call, sent, shown, key, requests, piiFound>>

Values   == Numbers \cup Names
Texts    == UNION {[1..n -> Values] : n \in 1..MaxSize}
(* TokenGenerator and encrypt_match: FPE depends on key, request and       *)
(* offset, a hash token on the request.  Tokens of different values are    *)
(* taken as distinct.                                                      *)
TokenFor(v, start, request) ==
    IF v \in Numbers THEN [value |-> v, request |-> request, key |-> key, start |-> start]
    ELSE [value |-> v, request |-> request, key |-> 0, start |-> 0]
Entry(token) == [token |-> token, plain |-> token.value]

NoCall  == [at |-> 0, registry |-> {}, new |-> <<>>, out |-> <<>>]
Idle    == call = NoCall
Nobody  == [wrote |-> <<>>, read |-> <<>>]

SessionTypeOK ==
    /\ style \in {"batch", "single"}
    /\ \A m \in ToSet(history) : m.role \in {"user", "assistant"}
    /\ call.at \in 0..Len(history)
    /\ Idle \/ Len(call.out) = call.at - 1
    /\ key \in 1..MaxRotations
    /\ requests \in 0..MaxTalks
    /\ piiFound \in Nat

SessionInit ==
    /\ style \in {"batch", "single"}
    /\ history = <<>>
    /\ mapping = <<>>
    /\ call = NoCall
    /\ sent = <<>>
    /\ shown = Nobody
    /\ key = 1
    /\ requests = 0
    /\ piiFound = 0

-----------------------------------------------------------------------------
\* Mutant: the call begins with an empty registry.
RegistryOfNone(entries) == {}

(* plaintext_registry: the entries given, by plaintext; a later one wins.  *)
RegistryOf(entries) ==
    {entries[i] : i \in {k \in 1..Len(entries) :
        \A j \in k + 1..Len(entries) : entries[j].plain # entries[k].plain}}

(* One match of a message: a value the registry knows keeps its token and  *)
(* adds no entry to the mapping; another one is encrypted or tokenized.    *)
Substituted(s, v, start) ==
    LET known == {e \in s.registry : e.plain = v}
        token == TokenFor(v, start, requests)
    IN  IF known # {}
        THEN [s EXCEPT !.text = Append(@, (CHOOSE e \in known : TRUE).token)]
        ELSE [text |-> Append(s.text, token), new |-> Append(s.new, Entry(token)),
              registry |-> s.registry \cup {Entry(token)}]

Sanitized(text) ==
    LET f[n \in 0..Len(text)] ==
          IF n = 0 THEN [text |-> <<>>, new |-> call.new, registry |-> call.registry]
          ELSE Substituted(f[n - 1], text[n], n)
    IN  f[Len(text)]

(* The app takes the mapping a call returns.                               *)
Keep(entries) == mapping' = IF Merging THEN mapping \o entries ELSE entries

-----------------------------------------------------------------------------
(* The user writes.  A batch app starts sanitize_messages over the whole   *)
(* history with the mapping it kept; the engine is locked for reading.     *)
SendBatch(text) ==
    /\ style = "batch" /\ Idle
    /\ requests < MaxTalks
    /\ history' = Append(history, [role |-> "user", text |-> text])
    /\ call' = [NoCall EXCEPT !.at = 1, !.registry = RegistryOf(mapping)]
    /\ requests' = requests + 1
    /\ shown' = Nobody
    /\ UNCHANGED <<style, mapping, sent, key, piiFound>>

(* One message of the batch: those of the assistant pass as they are.      *)
(* After the last one the call returns, and the app sends the result.      *)
SanitizeMessage ==
    /\ ~Idle
    /\ LET m    == history[call.at]
           s    == IF m.role = "assistant"
                   THEN [text |-> m.text, new |-> call.new, registry |-> call.registry]
                   ELSE Sanitized(m.text)
           out  == Append(call.out, s.text)
       IN  /\ piiFound' = IF m.role = "assistant" THEN piiFound ELSE piiFound + Len(m.text)
           /\ IF call.at = Len(history)
              THEN call' = NoCall /\ sent' = out /\ Keep(s.new)
              ELSE /\ call' = [at |-> call.at + 1, registry |-> s.registry,
                               new |-> s.new, out |-> out]
                   /\ UNCHANGED <<sent, mapping>>
    /\ UNCHANGED <<style, history, shown, key, requests>>

(* sanitize_text: each FPE match by its own offset, equal names alike; an  *)
(* app that calls it stores and sends what it returns.                     *)
SendText(text) ==
    /\ style = "single"
    /\ requests < MaxTalks
    /\ LET now == [n \in 1..Len(text) |-> TokenFor(text[n], n, requests + 1)]
       IN  /\ history' = Append(history, [role |-> "user", text |-> now])
           /\ sent' = [i \in 1..Len(history) |-> history[i].text] \o <<now>>
           /\ Keep([n \in 1..Len(now) |-> Entry(now[n])])
    /\ requests' = requests + 1
    /\ piiFound' = piiFound + Len(text)
    /\ shown' = Nobody
    /\ UNCHANGED <<style, call, key>>

-----------------------------------------------------------------------------
Shown == UNION {ToSet(text) : text \in ToSet(sent)}
Items == [token : Shown, spaced : {FALSE}]
         \cup [token : {t \in Shown : t.value \in Numbers}, spaced : {TRUE}]

Unread(w)      == [text |-> w.token, clear |-> FALSE]
Read(w, entry) == [text |-> entry.plain, clear |-> TRUE]

(* restore_text: exact tokens first; the numbers of which no exact one was *)
(* there are then looked for in other spellings.                           *)
RestoredText(wrote, entries) ==
    LET exact(t) == \E j \in 1..Len(wrote) : wrote[j] = [token |-> t, spaced |-> FALSE]
        of(w)    == {e \in ToSet(entries) : e.token = w.token /\ (w.spaced => ~exact(w.token))}
    IN  [i \in 1..Len(wrote) |->
           IF of(wrote[i]) = {} THEN Unread(wrote[i])
           ELSE Read(wrote[i], CHOOSE e \in of(wrote[i]) : TRUE)]

(* The model answers with tokens it was shown, numbers perhaps in another  *)
(* spelling; the app stores the answer and shows the restored text.        *)
Reply ==
    /\ Idle /\ sent # <<>> /\ shown = Nobody
    /\ \E n \in 1..MaxSize : \E wrote \in [1..n -> Items] :
         /\ shown' = [wrote |-> wrote, read |-> RestoredText(wrote, mapping)]
         /\ history' = Append(history, [role |-> "assistant",
                                        text |-> [i \in 1..n |-> wrote[i].token]])
    /\ UNCHANGED <<style, mapping, call, sent, key, requests, piiFound>>

(* rotate_key waits for the batch that reads the engine.                   *)
RotateKey ==
    /\ Idle
    /\ key < MaxRotations
    /\ key' = key + 1
    /\ UNCHANGED <<style, history, mapping, call, sent, shown, requests, piiFound>>

SessionNext ==
    \/ \E text \in Texts : SendBatch(text) \/ SendText(text)
    \/ SanitizeMessage
    \/ Reply
    \/ RotateKey

SessionSpec == SessionInit /\ [][SessionNext]_sessionVars
-----------------------------------------------------------------------------
(* A batch app shows the model one token per value for the length of the   *)
(* conversation, across messages, turns, answers and key rotations.        *)
OneTokenPerValue ==
    style = "batch" =>
        \A t, u \in Shown : t.value = u.value => t = u

(* The user reads the values behind every token of an answer, whichever    *)
(* turn it comes from, as long as the answer spells a token in one way.    *)
AnswersAreRestored ==
    \A i \in 1..Len(shown.wrote) :
        (\A j \in 1..Len(shown.wrote) :
            shown.wrote[i].token = shown.wrote[j].token
            => shown.wrote[i].spaced = shown.wrote[j].spaced)
        => /\ shown.read[i].clear
           /\ shown.read[i].text = shown.wrote[i].token.value

(* A conversation stays one: the model can tell values apart by their      *)
(* tokens over all its turns, and the user reads the values again.         *)
ConversationHolds == OneTokenPerValue /\ AnswersAreRestored
=============================================================================
