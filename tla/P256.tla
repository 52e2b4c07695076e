-------------------------------- MODULE P256 --------------------------------
(***************************************************************************)
(* pipeline/sigcheck.py's ECDSA and the DER its signatures travel in.  The *)
(* curve and the width of a byte are parameters: P-256 and eight bits in   *)
(* the code.  The RFC 6979 nonces are any nonces in range, in any order; a *)
(* digest is its value modulo N.                                           *)
(***************************************************************************)
EXTENDS Naturals, Integers, Sequences, SequencesExt

CONSTANTS
    P, A, B,   \* the curve y^2 = x^3 + A x + B over the integers mod P
    N,         \* its order, a prime
    G,         \* its generator
    Bits,      \* bits in a byte
    MaxLength  \* bound: bytes in an encoding

ASSUME CurveAssumption ==
    /\ {P, N} \subseteq Nat \ {0, 1}
    /\ {A, B} \subseteq 0..P - 1
    /\ G \in (0..P - 1) \X (0..P - 1)
    /\ (G[2] * G[2]) % P = (G[1] * G[1] * G[1] + A * G[1] + B) % P
    /\ Bits \in Nat \ {0, 1, 2}
    /\ MaxLength \in Nat

Infinity == <<>>

(* pow(x, -1, m) *)
Inverse_(x, m) == CHOOSE y \in 1..m - 1 : (x * y) % m = 1

_on_curve(point) ==
    /\ point # Infinity
    /\ LET x == point[1]
           y == point[2]
       IN  /\ x \in 0..P - 1
           /\ y \in 0..P - 1
           /\ (y * y - (x * x * x + A * x + B)) % P = 0

Chord(p1, p2, slope) ==
    LET x3 == (slope * slope - p1[1] - p2[1]) % P
    IN  <<x3, (slope * (p1[1] - x3) - p1[2]) % P>>

_add(p1, p2) ==
    IF p1 = Infinity THEN p2
    ELSE IF p2 = Infinity THEN p1
    ELSE IF p1[1] # p2[1]
    THEN Chord(p1, p2, (p2[2] - p1[2]) * Inverse_((p2[1] - p1[1]) % P, P) % P)
    ELSE IF (p1[2] + p2[2]) % P = 0 THEN Infinity
    ELSE Chord(p1, p2, (3 * p1[1] * p1[1] + A) * Inverse_((2 * p1[2]) % P, P) % P)

(* Double and add, from the lowest bit up.  k is below N, so N passes are  *)
(* more than its bits.                                                     *)
_mul(k, point) ==
    LET pass[i \in 0..N] ==
            IF i = 0 THEN [k |-> k, result |-> Infinity, addend |-> point]
            ELSE LET s == pass[i - 1]
                 IN  IF s.k = 0 THEN s
                     ELSE [k      |-> s.k \div 2,
                           result |-> IF s.k % 2 = 1 THEN _add(s.result, s.addend)
                                      ELSE s.result,
                           addend |-> _add(s.addend, s.addend)]
    IN  pass[N].result

p256_public_key(private) == _mul(private, G)

(* What one nonce of p256_sign_digest yields. *)
SignatureOf(private, e, nonce) ==
    LET r == _mul(nonce, G)[1] % N
    IN  <<r, (Inverse_(nonce, N) * (e + r * private)) % N>>

(* Mutant: a nonce of no use is used. *)
AnyNonce(private, e) == {SignatureOf(private, e, nonce) : nonce \in 1..N - 1}

(* The first nonce with r and s non-zero: whichever the nonces begin with. *)
p256_sign_digest(private, e) ==
    {sig \in {SignatureOf(private, e, nonce) : nonce \in 1..N - 1} :
        sig[1] # 0 /\ sig[2] # 0}

p256_verify_digest(public, e, r, s) ==
    /\ r \in 1..N - 1
    /\ s \in 1..N - 1
    /\ _on_curve(public)
    /\ LET w == Inverse_(s, N)
           point == _add(_mul((e * w) % N, G), _mul((r * w) % N, public))
       IN  point # Infinity /\ point[1] % N = r

-----------------------------------------------------------------------------
(* DER.  Bytes are naturals; a tag is a byte no length or value is read from. *)

Byte == 2 ^ Bits
HighBit == 2 ^ (Bits - 1)

TagInteger == 2
TagSequence == 48

(* int.to_bytes with as few bytes as the value needs, and int.from_bytes.  *)
ToBytes(value) ==
    LET size == CHOOSE n \in 0..MaxLength :
                    /\ value < Byte ^ n
                    /\ n > 0 => value >= Byte ^ (n - 1)
    IN  [i \in 1..size |-> (value \div Byte ^ (size - i)) % Byte]

FromBytes(bytes) ==
    FoldLeft(LAMBDA sum, byte : sum * Byte + byte, 0, bytes)

_der_len(length) ==
    LET raw == ToBytes(length)
    IN  IF length < HighBit THEN <<length>> ELSE <<HighBit + Len(raw)>> \o raw

_der_int(value) ==
    LET raw == IF value = 0 THEN <<0>> ELSE ToBytes(value)
        signed == IF raw[1] >= HighBit THEN <<0>> \o raw ELSE raw
    IN  <<TagInteger>> \o _der_len(Len(signed)) \o signed

der_signature(r, s) ==
    LET body == _der_int(r) \o _der_int(s)
    IN  <<TagSequence>> \o _der_len(Len(body)) \o body

(* The first tag and value, where they end (beyond the data, if the length *)
(* itself is cut off) and the rest of the data; <<>> when it raises.       *)
_der_read(data) ==
    LET short == Len(data) >= 2 /\ data[2] < HighBit
        count == IF short THEN 0 ELSE data[2] - HighBit
        from  == 2 + count
        length == IF short THEN data[2]
                  ELSE FromBytes(SubSeq(data, 3, IF from < Len(data) THEN from ELSE Len(data)))
    IN  IF \/ Len(data) < 2
           \/ ~short /\ count \notin 1..4
           \/ length > 0 /\ from + length > Len(data)
        THEN <<>>
        ELSE <<[tag   |-> data[1],
                value |-> SubSeq(data, from + 1, from + length),
                end   |-> from + length,
                rest  |-> SubSeq(data, from + length + 1, Len(data))]>>

(* Every element of the data, or bad: each takes two bytes or more.        *)
_der_children(data) ==
    LET pass[i \in 0..Len(data)] ==
            IF i = 0 THEN [out |-> <<>>, rest |-> data, bad |-> FALSE]
            ELSE LET s == pass[i - 1]
                     next == _der_read(s.rest)
                 IN  IF s.bad \/ s.rest = <<>> THEN s
                     ELSE IF next = <<>> THEN [s EXCEPT !.bad = TRUE]
                     ELSE [out  |-> Append(s.out, <<next[1].tag, next[1].value>>),
                           rest |-> next[1].rest,
                           bad  |-> FALSE]
    IN  pass[Len(data)]

(* Mutant: what follows the signature is not looked at. *)
ParsePrefix(data) ==
    LET top == _der_read(data)
        children == _der_children(top[1].value)
    IN  IF top = <<>> \/ top[1].tag # TagSequence \/ children.bad \/ Len(children.out) # 2
        THEN <<>>
        ELSE <<FromBytes(children.out[1][2]), FromBytes(children.out[2][2])>>

(* (r, s), or <<>> when it raises. *)
parse_der_signature(data) ==
    LET top == _der_read(data)
        children == _der_children(top[1].value)
    IN  IF \/ top = <<>>
           \/ top[1].tag # TagSequence
           \/ top[1].end # Len(data)
           \/ children.bad
           \/ Len(children.out) # 2
           \/ \E i \in 1..2 : children.out[i][1] # TagInteger
        THEN <<>>
        ELSE <<FromBytes(children.out[1][2]), FromBytes(children.out[2][2])>>

-----------------------------------------------------------------------------
(* The definition the checks hold these to: the k-th sum of a point.       *)
Multiple(k, point) ==
    LET sum[i \in 0..k] == IF i = 0 THEN Infinity ELSE _add(sum[i - 1], point)
    IN  sum[k]
=============================================================================
