----------------------------- MODULE FpeFormat -----------------------------
(***************************************************************************)
(* How a value becomes a token of the same format: the part that is        *)
(* encrypted, the separators taken out and put back, the least length, and *)
(* the way back.  FF1 is external: any cipher that, per tweak, has an      *)
(* inverse on the numerals of a length.                                    *)
(***************************************************************************)
EXTENDS Integers, Sequences, SequencesExt, Selection

CONSTANTS
    Characters, \* of values; the digits and letters among them are below
    MaxValue,   \* bound: characters of a value
    Tweaks,     \* tweaks, small numbers
    Ff1(_, _, _),    \* FF1::encrypt of numerals, a radix and a tweak
    Ff1Inv(_, _, _)  \* FF1::decrypt

Digits == <<"1", "2">>
Lower  == <<"a", "b">>
Upper  == <<"A", "B">>

ASSUME ValueAssumption == Tweaks \subseteq Nat /\ MaxValue \in Nat

TokenKinds == {"card", "email", "api_key", "iban"}

(* PiiType::config: alphabet and min_length, scaled down; the radix is the *)
(* length of the alphabet.                                                 *)
Alphabet == [card |-> Digits, email |-> Digits \o Lower,
             api_key |-> Digits \o Upper \o Lower, iban |-> Digits \o Lower]
MinLength == [card |-> 3, email |-> 2, api_key |-> 2, iban |-> 2]
Folded == {"email", "iban"}  \* lowercased before the template, as are ipv6 and mac

NumeralSeqs(k, n) == [1..n -> 0..Len(Alphabet[k]) - 1]

ASSUME Ff1Assumption ==
    \A k \in TokenKinds, t \in Tweaks, n \in 0..MaxValue :
      LET r == Len(Alphabet[k]) IN
      \A ns \in NumeralSeqs(k, n) :
         /\ Ff1(ns, r, t) \in NumeralSeqs(k, n)
         /\ Ff1Inv(Ff1(ns, r, t), r, t) = ns

VARIABLES
    kind,    \* pii_type
    plain,   \* raw_value
    tweak,   \* of this record
    token,   \* the FpeResult, or <<>>
    opened,  \* what decrypt_value makes of it, or <<>>
    fpeStep  \* "raw", "sealed", "opened" or "refused"

fpeVars == <<kind, plain, tweak, token, opened, fpeStep>>

-----------------------------------------------------------------------------
IndexOf(s, c) == Min({i \in 1..Len(s) : s[i] = c})

LowerOf(c) == IF c \in ToSet(Upper) THEN Lower[IndexOf(Upper, c)] ELSE c
UpperOf(c) == IF c \in ToSet(Lower) THEN Upper[IndexOf(Lower, c)] ELSE c
LowerCased(s) == [i \in 1..Len(s) |-> LowerOf(s[i])]
UpperCased(s)  == [i \in 1..Len(s) |-> UpperOf(s[i])]
IsLetter(c) == c \in ToSet(Upper) \cup ToSet(Lower)

(* extract_encryptable.                                                    *)
Extract_(v, k) ==
    IF k = "email" /\ "@" \in ToSet(v)
    THEN LET p == IndexOf(v, "@")
         IN  [core |-> SubSeq(v, 1, p - 1), prefix |-> <<>>, suffix |-> SubSeq(v, p, Len(v))]
    ELSE IF k = "iban" /\ Len(v) >= 2 /\ IsLetter(v[1]) /\ IsLetter(v[2])
    THEN [core |-> SubSeq(v, 3, Len(v)), prefix |-> UpperCased(SubSeq(v, 1, 2)),
          suffix |-> <<>>]
    ELSE [core |-> v, prefix |-> <<>>, suffix |-> <<>>]

Core(v, k) ==
    IF k \in Folded THEN LowerCased(Extract_(v, k).core) ELSE Extract_(v, k).core

(* FormatTemplate::from_raw.                                               *)
Naked(s, k) == Those(s, ToSet(Alphabet[k]))
Separators(s, k) ==
    Those([i \in 1..Len(s) |-> <<i, s[i]>>],
          {<<i, s[i]>> : i \in {j \in 1..Len(s) : s[j] \notin ToSet(Alphabet[k])}})

\* Mutant: the positions are those in what is left, not in the value.
ApplyShifted(naked, separators) ==
    LET put[n \in 0..Len(separators)] ==
          IF n = 0 THEN naked
          ELSE IF separators[n][1] - n <= Len(put[n - 1])
               THEN InsertAt(put[n - 1], separators[n][1] - n + 1, separators[n][2])
               ELSE put[n - 1]
    IN  put[Len(separators)]

(* FormatTemplate::apply: from the front, each at its place in the value.  *)
ApplyTemplate(naked, separators) ==
    LET put[n \in 0..Len(separators)] ==
          IF n = 0 THEN naked
          ELSE IF separators[n][1] - 1 <= Len(put[n - 1])
               THEN InsertAt(put[n - 1], separators[n][1], separators[n][2])
               ELSE put[n - 1]
    IN  put[Len(separators)]

\* AlphabetMapper, both ways.
Numerals(s, k) == [i \in 1..Len(s) |-> IndexOf(Alphabet[k], s[i]) - 1]
Letters(ns, k) == [i \in 1..Len(ns) |-> Alphabet[k][ns[i] + 1]]

(* What encrypt_match and decrypt_value share: the numerals that are put   *)
(* through the cipher, and the value around those that come out.           *)
Inner(v, k) == Numerals(Naked(Core(v, k), k), k)
Rebuilt(v, k, ns) ==
    Extract_(v, k).prefix
    \o ApplyTemplate(Letters(ns, k), Separators(Core(v, k), k))
    \o Extract_(v, k).suffix

-----------------------------------------------------------------------------
\* The patterns match such values only: an address has an @, an IBAN begins
\* with its country.
Plausible(v, k) ==
    /\ k = "email" => "@" \in ToSet(v)
    /\ k = "iban" => Len(v) >= 2 /\ IsLetter(v[1]) /\ IsLetter(v[2])

FpeTypeOK ==
    /\ kind \in TokenKinds /\ tweak \in Tweaks
    /\ fpeStep \in {"raw", "sealed", "opened", "refused"}
    /\ fpeStep \in {"sealed", "opened"} => Len(token) = Len(plain)

FpeInit ==
    /\ kind \in TokenKinds
    /\ plain \in {v \in BoundedSeq(Characters, MaxValue) : Plausible(v, kind)}
    /\ tweak \in Tweaks
    /\ token = <<>> /\ opened = <<>> /\ fpeStep = "raw"

(* encrypt_match; a domain that is too small is an error.                  *)
EncryptMatch ==
    /\ fpeStep = "raw"
    /\ IF Len(Naked(Core(plain, kind), kind)) < MinLength[kind]
       THEN fpeStep' = "refused" /\ UNCHANGED token
       ELSE /\ token' = Rebuilt(plain, kind, Ff1(Inner(plain, kind), Len(Alphabet[kind]), tweak))
            /\ fpeStep' = "sealed"
    /\ UNCHANGED <<kind, plain, tweak, opened>>

(* decrypt_value of the token.                                             *)
DecryptValue ==
    /\ fpeStep = "sealed"
    /\ opened' = Rebuilt(token, kind, Ff1Inv(Inner(token, kind), Len(Alphabet[kind]), tweak))
    /\ fpeStep' = "opened"
    /\ UNCHANGED <<kind, plain, tweak, token>>

FpeNext == EncryptMatch \/ DecryptValue

FpeSpec == FpeInit /\ [][FpeNext]_fpeVars
-----------------------------------------------------------------------------
\* The value as far as a token tells it: folded where the type is.
Canonical == Extract_(plain, kind).prefix \o Core(plain, kind) \o Extract_(plain, kind).suffix

(* A token keeps the length and every separator at its place, and leads    *)
(* back to its value up to case; so under one tweak two values share a     *)
(* token only if they differ in case alone, wherever separators, prefix    *)
(* and domain stand.                                                       *)
TokenTellsValue ==
    /\ fpeStep = "opened" => opened = Canonical
    /\ fpeStep \in {"sealed", "opened"} =>
         \A i \in 1..Len(plain) :
             LowerOf(plain[i]) \notin ToSet(Digits \o Lower) => token[i] = plain[i]
=============================================================================
