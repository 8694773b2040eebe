------------------------------ MODULE Handshake ------------------------------
(***************************************************************************)
(* class handshake (crypter.hpp): the key pairs that a program constructs, *)
(* moves and destroys, and the secrets they make from public keys that     *)
(* arrive late, twice or never.  x25519 and blake2b are symbolic: a point  *)
(* is the set of the private keys it belongs to, at most one, and a secret *)
(* the hash of the unordered pair of two private keys.                     *)
(***************************************************************************)
EXTENDS Naturals

CONSTANTS
    Handshakes,     \* where the program keeps handshakes
    RandomKeys,     \* bound: what the random source returns, each once
    Zero            \* 32 zero bytes as a private key: wiped, or never filled

ASSUME ZeroAssumption == Zero \notin RandomKeys

VARIABLES
    alive,      \* the handshakes constructed and not destroyed
    hs,         \* the memory of each, destroyed or not
    used,       \* random keys returned so far
    madeWith    \* history: the point that each secret was made with

handshakeVars == <<alive, hs, used, madeWith>>

PrivateKeys == RandomKeys \cup {Zero}
NoPoint == {}       \* 32 zero bytes, which are the public key of nobody
Points == {{k} : k \in PrivateKeys} \cup {NoPoint}

Hash(x) == {x}
NoSecret == {}      \* 32 zero bytes, which no hash gives

\* Mutant: the own key goes into the hash before the other's.
OwnFirst(own, point) == Hash(<<own, point>>)

\* crypto_x25519() and crypto_blake2b(): the same for both ends; x25519 of the zero
\* point is the same for everyone.
Secret(own, point) == Hash(IF point = NoPoint THEN {} ELSE {own} \cup point)

_generate_public(private) == {private}

NewHandshake(private) ==
    [_private |-> private, _public |-> _generate_public(private),
     _shared_secret |-> NoSecret, _is_shared_valid |-> FALSE]

\* Mutants: a move leaves the source as it was, or wipes its keys and not the flag.
NotWiped(h) == hs[h]
FlagLeft(h) == [hs[h] EXCEPT !._private = Zero, !._public = NoPoint, !._shared_secret = NoSecret]

Zeros == [_private |-> Zero, _public |-> NoPoint,
          _shared_secret |-> NoSecret, _is_shared_valid |-> FALSE]

\* What _wipe() leaves in the memory of h.
Wiped(h) == Zeros

HandshakeInit ==
    /\ alive = {} /\ used = {}
    /\ hs = [h \in Handshakes |-> Zeros]
    /\ madeWith = [h \in Handshakes |-> NoPoint]

\* get_bytes() may fail and leave zeros; the constructor does not ask.
Construct(h) ==
    /\ h \notin alive
    /\ alive' = alive \cup {h}
    /\ \/ hs' = [hs EXCEPT ![h] = NewHandshake(Zero)] /\ UNCHANGED used
       \/ \E k \in RandomKeys \ used :
             hs' = [hs EXCEPT ![h] = NewHandshake(k)] /\ used' = used \cup {k}
    /\ UNCHANGED madeWith

Destroy(h) ==
    /\ h \in alive
    /\ alive' = alive \ {h}
    /\ hs' = [hs EXCEPT ![h] = Wiped(h)]
    /\ UNCHANGED <<used, madeWith>>

\* The move constructor and, wiping first, the move assignment.
Move(h, from) ==
    /\ from \in alive /\ h # from
    /\ alive' = alive \cup {h}
    /\ hs' = [hs EXCEPT ![h] = hs[from], ![from] = Wiped(from)]
    /\ madeWith' = [madeWith EXCEPT ![h] = madeWith[from]]
    /\ UNCHANGED used

\* other_public is any key that was ever handed out, that of a wiped handshake included.
generate_shared_secret(h, other_public) ==
    /\ h \in alive
    /\ hs' = [hs EXCEPT ![h] =
                 [_private |-> hs[h]._private, _public |-> hs[h]._public,
                  _shared_secret |-> Secret(hs[h]._private, other_public),
                  _is_shared_valid |-> TRUE]]
    /\ madeWith' = [madeWith EXCEPT ![h] = other_public]
    /\ UNCHANGED <<alive, used>>

HandshakeNext ==
    \/ \E h \in Handshakes : Construct(h) \/ Destroy(h)
    \/ \E h, from \in Handshakes : Move(h, from)
    \/ \E h \in Handshakes, p \in {{k} : k \in used \cup {Zero}} \cup {NoPoint} :
          generate_shared_secret(h, p)

HandshakeSpec == HandshakeInit /\ [][HandshakeNext]_handshakeVars

-----------------------------------------------------------------------------
HandshakeTypeOK ==
    /\ alive \subseteq Handshakes /\ used \subseteq RandomKeys
    /\ hs \in [Handshakes -> [_private : PrivateKeys, _public : Points,
                              _shared_secret : SUBSET SUBSET PrivateKeys,
                              _is_shared_valid : BOOLEAN]]
    /\ madeWith \in [Handshakes -> Points]

\* h made a secret from a random key and a public key of somebody.
Proper(h) ==
    hs[h]._is_shared_valid /\ hs[h]._private # Zero /\ madeWith[h] # NoPoint

\* Two handshakes have the same secret exactly when each made it with the public key
\* that the other has now: whatever was moved, and however stale the keys that arrive,
\* no secret is shared by accident.  The zero point of a wiped handshake is excepted.
Agreement ==
    \A g, h \in Handshakes :
        g # h /\ Proper(g) /\ Proper(h) =>
            (hs[g]._shared_secret = hs[h]._shared_secret <=>
                madeWith[g] = hs[h]._public /\ madeWith[h] = hs[g]._public)

\* A secret that is_shared_valid() vouches for was made with the private key that the
\* handshake has now, and a secret is vouched for as soon as it is there.
ValidSecretIsOwn ==
    \A h \in Handshakes :
        IF hs[h]._is_shared_valid
        THEN hs[h]._shared_secret = Secret(hs[h]._private, madeWith[h])
        ELSE hs[h]._shared_secret = NoSecret

\* A private key is in the memory of one handshake that is alive, and of no other place
\* that held it before it moved or was destroyed.
OneHome ==
    \A h \in Handshakes :
        hs[h]._private # Zero =>
            h \in alive /\ \A g \in Handshakes : hs[g]._private = hs[h]._private => g = h
=============================================================================
