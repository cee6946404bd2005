------------------------------ MODULE UlCircle ------------------------------
(***************************************************************************)
(* The byte ring of src/ul_circle.cpp.  One of its BufSize + 1 cells stays *)
(* empty, so that sHead = sTail means empty.  The memory behind the ring   *)
(* is part of pbyBuf here, to show what a copy past the end would hit.     *)
(* The ring has no lock: a program calls it from one thread at a time.     *)
(***************************************************************************)
EXTENDS Integers, Sequences

CONSTANTS BufSize,    \* npmBufSize, the argument of pstCBinit()
          Byte,
          Garbage,    \* what malloc'ed memory holds
          Reserve     \* what nCBgetbufreelen() keeps back, 10 in the code

\* pstCBinit() refuses less than 2.
ASSUME CircleAssumption ==
    /\ BufSize \in Nat /\ BufSize >= 2 /\ Garbage \notin Byte
    /\ Reserve \in Nat \ {0}

VARIABLES up,             \* the ring exists
          pbyBuf, sHead, sTail,
          reply           \* the last call and what it returned

circleVars == <<up, pbyBuf, sHead, sTail, reply>>

sBufLen == BufSize + 1
Memory == 0..(2 * sBufLen)

CircleInit ==
    /\ up = FALSE /\ sHead = 0 /\ sTail = 0
    /\ pbyBuf = [i \in Memory |-> Garbage]
    /\ reply = [op |-> "none", ret |-> "ok", data |-> <<>>]

Return(op, ret, data) == reply' = [op |-> op, ret |-> ret, data |-> data]

pstCBinit ==
    /\ ~up /\ up' = TRUE /\ sHead' = 0 /\ sTail' = 0
    /\ pbyBuf' = [i \in Memory |-> Garbage]
    /\ Return("none", "ok", <<>>)

vCBfree ==
    /\ up /\ up' = FALSE /\ sHead' = 0 /\ sTail' = 0
    /\ pbyBuf' = [i \in Memory |-> Garbage]
    /\ Return("none", "ok", <<>>)

NotInit == ~up /\ Return("none", "NOTINIT", <<>>) /\ UNCHANGED <<up, pbyBuf, sHead, sTail>>

\* The tests of nCBput() and nCBget().
Room == (sHead - 1 - sTail + sBufLen) % sBufLen
nCBgetdatalen == (sTail - sHead + sBufLen) % sBufLen
nCBgetbufreelen ==
    LET freelen == sBufLen - nCBgetdatalen - Reserve IN IF freelen < 0 THEN 0 ELSE freelen

Memcpy(mem, at, s) ==
    [i \in Memory |-> IF i \in at..(at + Len(s) - 1) THEN s[i - at + 1] ELSE mem[i]]

\* Mutant: an empty ring taken for one whose free cells lie in one piece.
nCBputWhole(s) ==
    /\ up
    /\ \/ Room < Len(s) /\ Return("put", "CQFULL", <<>>) /\ UNCHANGED <<up, pbyBuf, sHead, sTail>>
       \/ /\ Room >= Len(s) /\ Return("put", "ok", <<>>) /\ UNCHANGED <<up, sHead>>
          /\ LET sTmpLen == sBufLen - sTail IN
             \/ /\ sTail <= sHead \/ sTmpLen >= Len(s)
                /\ pbyBuf' = Memcpy(pbyBuf, sTail, s)
                /\ sTail' = (sTail + Len(s)) % sBufLen
             \/ /\ sTail > sHead /\ sTmpLen < Len(s)
                /\ pbyBuf' = Memcpy(Memcpy(pbyBuf, sTail, SubSeq(s, 1, sTmpLen)),
                                    0, SubSeq(s, sTmpLen + 1, Len(s)))
                /\ sTail' = Len(s) - sTmpLen

\* In one piece, or in two around the end.
nCBput(s) ==
    /\ up
    /\ \/ Room < Len(s) /\ Return("put", "CQFULL", <<>>) /\ UNCHANGED <<up, pbyBuf, sHead, sTail>>
       \/ /\ Room >= Len(s) /\ Return("put", "ok", <<>>) /\ UNCHANGED <<up, sHead>>
          /\ LET sTmpLen == sBufLen - sTail IN
             \/ /\ sTail < sHead \/ sTmpLen >= Len(s)
                /\ pbyBuf' = Memcpy(pbyBuf, sTail, s)
                /\ sTail' = (sTail + Len(s)) % sBufLen
             \/ /\ sTail >= sHead /\ sTmpLen < Len(s)
                /\ pbyBuf' = Memcpy(Memcpy(pbyBuf, sTail, SubSeq(s, 1, sTmpLen)),
                                    0, SubSeq(s, sTmpLen + 1, Len(s)))
                /\ sTail' = Len(s) - sTmpLen

(* The two memcpy() out of the ring, and where sHead goes with them. *)
Piece(n) == sTail > sHead \/ sBufLen - sHead >= n
Bytes(n) == [k \in 1..n |-> IF Piece(n) \/ k <= sBufLen - sHead THEN pbyBuf[sHead + k - 1]
                            ELSE pbyBuf[k - 1 - (sBufLen - sHead)]]
Moved(n) == IF Piece(n) THEN (sHead + n) % sBufLen ELSE n - (sBufLen - sHead)

nCBget(n) ==
    /\ up /\ UNCHANGED <<up, pbyBuf, sTail>>
    /\ \/ nCBgetdatalen < n /\ Return("get", "CQEMPTY", <<>>) /\ UNCHANGED sHead
       \/ nCBgetdatalen >= n /\ Return("get", "ok", Bytes(n)) /\ sHead' = Moved(n)

\* Mutant: sHead is not put back.
nCBlookupMoves(n) ==
    /\ up /\ UNCHANGED <<up, pbyBuf, sTail>>
    /\ \/ nCBgetdatalen < n /\ Return("lookup", "CQEMPTY", <<>>) /\ UNCHANGED sHead
       \/ nCBgetdatalen >= n /\ Return("lookup", "ok", Bytes(n)) /\ sHead' = Moved(n)

\* As nCBget(), with sHead saved and put back.
nCBlookup(n) ==
    /\ up /\ UNCHANGED <<up, pbyBuf, sHead, sTail>>
    /\ \/ nCBgetdatalen < n /\ Return("lookup", "CQEMPTY", <<>>)
       \/ nCBgetdatalen >= n /\ Return("lookup", "ok", Bytes(n))

CircleNext ==
    \/ pstCBinit \/ vCBfree \/ NotInit
    \/ \E n \in 1..sBufLen :
          nCBget(n) \/ nCBlookup(n) \/ \E s \in [1..n -> Byte] : nCBput(s)

CircleSpec == CircleInit /\ [][CircleNext]_circleVars
-----------------------------------------------------------------------------
(* No memcpy() of nCBput() writes behind the ring. *)
NoOverrun == \A i \in Memory : i >= sBufLen => pbyBuf[i] = Garbage

(* A put of as many bytes as nCBgetbufreelen() says is not refused.        *)
FreeFits == nCBgetbufreelen <= Room

(* The two pieces of a wrapping put stay inside the ring, and the room a   *)
(* caller is told of is there.                                             *)
CircleSafe == NoOverrun /\ FreeFits

(* The ring, with its wrapping indices and its copies in two pieces, is a  *)
(* queue of bytes: nothing is lost, repeated, reordered or unwritten, and  *)
(* calls are refused exactly when there is no room or too little data.     *)
bytes == [k \in 1..nCBgetdatalen |-> pbyBuf[(sHead + k - 1) % sBufLen]]
B == INSTANCE ByteQueue WITH q <- bytes
ImplementsByteQueue == B!Spec
=============================================================================
