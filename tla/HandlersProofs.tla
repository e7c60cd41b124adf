--------------------------- MODULE HandlersProofs ---------------------------
(***************************************************************************)
(* Proofs about Handlers, for every set of readers, nodes, contents and    *)
(* number pairs, and about the text of a signature, for every number of    *)
(* bytes.                                                                  *)
(***************************************************************************)
EXTENDS Handlers, BlockchainProofs, WellFoundedInduction

----------------------------------------------------------------------------
(* The text of a signature *)

\* Counting the leading zeros ends: a number has a first byte that is not zero,
\* or all of them are.
LEMMA LeadingZerosExist ==
    ASSUME NEW n \in Number
    PROVE  /\ LeadingZeros(n) \in 0 .. Width
           /\ \A i \in 1 .. LeadingZeros(n) : n[i] = 0
           /\ LeadingZeros(n) < Width => n[LeadingZeros(n) + 1] # 0
<1> DEFINE Good(k) == (\A i \in 1 .. k : n[i] = 0) /\ (k < Width => n[k + 1] # 0)
           T == {k \in 1 .. Width : n[k] # 0}
<1>1. \E k \in 0 .. Width : Good(k)
  <2>0. Width \in Nat \ {0}
    BY TextAssumption
  <2>1. CASE T = {}
    <3>1. Good(Width)
      BY <2>0, <2>1
    <3> QED
      BY <2>0, <3>1
  <2>2. CASE T # {}
    <3>1. T \subseteq Nat
      BY <2>0
    <3> HIDE DEF T
    <3>2. \E m \in T : \A k \in T : ~(<<k, m>> \in OpToRel(<, Nat))
      BY <2>2, <3>1, WFMin, NatLessThanWellFounded, Zenon
    <3>3. PICK m \in T : \A k \in T : ~(k < m)
      BY <3>1, <3>2 DEF OpToRel
    <3>4. m \in 1 .. Width /\ n[m] # 0
      BY <3>3 DEF T
    <3>5. \A i \in 1 .. m - 1 : i \in 1 .. Width /\ i < m
      BY <2>0, <3>4
    <3>6. \A i \in 1 .. m - 1 : n[i] = 0
      BY <3>3, <3>5 DEF T
    <3>7. m - 1 \in 0 .. Width /\ (m - 1) + 1 = m
      BY <2>0, <3>4
    <3>8. Good(m - 1)
      BY <3>4, <3>6, <3>7
    <3> QED
      BY <3>7, <3>8
  <2> QED
    BY <2>1, <2>2
<1>2. LeadingZeros(n) = CHOOSE k \in 0 .. Width : Good(k)
  BY DEF LeadingZeros
<1> QED
  BY <1>1, <1>2

LEMMA BytesProperties ==
    ASSUME NEW n \in Number
    PROVE  /\ Bytes(n) \in Seq(Byte)
           /\ Len(Bytes(n)) \in 0 .. Width
           /\ n[1] # 0 => Bytes(n) = n
           /\ n[1] = 0 => Len(Bytes(n)) < Width
<1> DEFINE k == LeadingZeros(n)
<1>1. /\ Width \in Nat \ {0} /\ k \in 0 .. Width
      /\ \A i \in 1 .. k : n[i] = 0
      /\ k < Width => n[k + 1] # 0
  BY LeadingZerosExist, TextAssumption
<1>2. Bytes(n) = [i \in 1 .. Width - k |-> n[k + i]]
  BY DEF Bytes
<1> HIDE DEF k
<1>3. Width - k \in Nat
  BY <1>1
<1>4. \A i \in 1 .. Width - k : n[k + i] \in Byte
  BY <1>1 DEF Number
<1>5. Bytes(n) \in Seq(Byte) /\ Len(Bytes(n)) = Width - k
  BY <1>2, <1>3, <1>4
<1>6. ASSUME n[1] # 0 PROVE Bytes(n) = n
  <2>1. k = 0
    BY <1>1, <1>6
  <2>2. n = [i \in 1 .. Width |-> n[i]]
    BY DEF Number
  <2>3. \A i \in 1 .. Width : k + i = i
    BY <1>1, <2>1
  <2> QED
    BY <1>1, <1>2, <2>1, <2>2, <2>3
<1>7. ASSUME n[1] = 0 PROVE k # 0
  BY <1>1, <1>7
<1> QED
  BY <1>1, <1>5, <1>6, <1>7

\* Verify gives the numbers back that Sign wrote down if neither starts with a
\* zero byte, and otherwise finds too few digits.
LEMMA RoundTrip ==
    ASSUME NEW pair \in Number \X Number
    PROVE  ReadsBack(Sign(pair), pair) <=> FullWidth(pair)
<1> DEFINE r == pair[1]
           s == pair[2]
<1>0. Width \in Nat \ {0} /\ r \in Number /\ s \in Number
  BY TextAssumption
<1>1. Sign(pair) = Bytes(r) \o Bytes(s)
  BY DEF Sign
<1>2. FullWidth(pair) <=> r[1] # 0 /\ s[1] # 0
  BY DEF FullWidth
<1> HIDE DEF r, s
<1>3. /\ Bytes(r) \in Seq(Byte) /\ Len(Bytes(r)) \in 0 .. Width
      /\ Bytes(s) \in Seq(Byte) /\ Len(Bytes(s)) \in 0 .. Width
      /\ r[1] # 0 => Bytes(r) = r
      /\ s[1] # 0 => Bytes(s) = s
      /\ r[1] = 0 => Len(Bytes(r)) < Width
      /\ s[1] = 0 => Len(Bytes(s)) < Width
  BY <1>0, BytesProperties
<1>4. Len(Sign(pair)) = Len(Bytes(r)) + Len(Bytes(s))
  BY <1>1, <1>3, ConcatProperties
<1>5. ASSUME ~FullWidth(pair) PROVE ~ReadsBack(Sign(pair), pair)
  <2>1. Len(Sign(pair)) < 2 * Width
    BY <1>0, <1>2, <1>3, <1>4, <1>5
  <2> QED
    BY <1>0, <2>1 DEF ReadsBack
<1>6. ASSUME FullWidth(pair) PROVE ReadsBack(Sign(pair), pair)
  <2>1. Bytes(r) = r /\ Bytes(s) = s
    BY <1>2, <1>3, <1>6
  <2>2. r = [i \in 1 .. Width |-> r[i]] /\ s = [i \in 1 .. Width |-> s[i]]
    BY <1>0 DEF Number
  <2>3. r \in Seq(Byte) /\ s \in Seq(Byte) /\ Len(r) = Width /\ Len(s) = Width
    BY <1>0, <1>3, <2>1, <2>2
  <2>4. Len(Sign(pair)) = 2 * Width
    BY <1>0, <1>4, <2>1, <2>3
  <2>5. SubSeq(Sign(pair), 1, Width) = r
    <3>0. 1 \in 1 .. Len(r) /\ Width \in 1 .. Len(r)
      BY <1>0, <2>3
    <3>1. SubSeq(r \o s, 1, Width) = SubSeq(r, 1, Width)
      BY <2>3, <3>0, SubSeqOfConcat1
    <3>2. SubSeq(r, 1, Width) = r
      BY <2>3, SubSeqFull
    <3> QED
      BY <1>1, <2>1, <3>1, <3>2
  <2>6. SubSeq(Sign(pair), Width + 1, 2 * Width) = s
    <3>1. Width + 1 \in Len(r) + 1 .. Len(r) + Len(s) /\ 2 * Width \in Len(r) + 1 .. Len(r) + Len(s)
          /\ (Width + 1) - Len(r) = 1 /\ 2 * Width - Len(r) = Width
      BY <1>0, <2>3
    <3>2. SubSeq(r \o s, Width + 1, 2 * Width) = SubSeq(s, 1, Width)
      <4>1. \A m, n \in Len(r) + 1 .. Len(r) + Len(s) :
               SubSeq(r \o s, m, n) = SubSeq(s, m - Len(r), n - Len(r))
        BY <2>3, SubSeqOfConcat2
      <4> QED
        BY <3>1, <4>1
    <3>3. SubSeq(s, 1, Width) = s
      BY <2>3, SubSeqFull
    <3> QED
      BY <1>1, <2>1, <3>2, <3>3
  <2>7. SetBytes(r) = r /\ SetBytes(s) = s
    BY <2>2 DEF SetBytes
  <2> QED
    BY <2>4, <2>5, <2>6, <2>7 DEF ReadsBack, r, s
<1> QED
  BY <1>5, <1>6

----------------------------------------------------------------------------
(* POST /transactions *)

\* A transaction is accepted exactly if its text reads back and it was signed in
\* the second of its arrival.
LEMMA PostKeepsFresh ==
    ASSUME TypeOK, now \in 0 .. MaxTime,
           NEW body \in Body \ SystemBody, NEW pair \in Pairs, Post(body, pair)
    PROVE  PooledIfFresh'
<1> DEFINE stamped == Stamp(body)
           tx == [id |-> stamped, body |-> stamped, sig |-> Verdict(body, stamped, pair)]
<1>1. body \in [what : What, time : 0 .. MaxTime] /\ pair \in Number \X Number
  BY HandlersAssumption
<1>2. stamped \in Body /\ stamped.time = now /\ (body = stamped <=> body.time = now)
  BY <1>1, HandlersAssumption DEF Stamp
<1>3. stamped \notin SystemBody
  <2>1. [stamped EXCEPT !.time = body.time] = body
    BY <1>1 DEF Stamp
  <2> QED
    BY <1>1, <2>1, HandlersAssumption
<1>4. Verdict(body, stamped, pair) = IF FullWidth(pair) /\ body.time = now THEN "ok" ELSE "bad"
  BY <1>1, <1>2, RoundTrip DEF Verdict
<1>5. tx \in Tx /\ tx.body = stamped /\ tx.sig = Verdict(body, stamped, pair)
  BY <1>2, <1>4, BodyAssumption DEF Tx, Sig
<1>6. /\ IF TxVerify(tx) THEN AddTransaction(tx) ELSE UNCHANGED vars
      /\ posted' = [fresh |-> body.time = now /\ FullWidth(pair),
                    pooled |-> pending'[tx] > pending[tx]]
  BY DEF Post
<1> HIDE DEF stamped, tx
<1>7. TxVerify(tx) <=> body.time = now /\ FullWidth(pair)
  BY <1>3, <1>4, <1>5 DEF TxVerify
<1>8. pending[tx] \in Nat
  BY <1>5 DEF TypeOK, TxBag
<1>9. pending'[tx] > pending[tx] <=> TxVerify(tx)
  <2>1. CASE TxVerify(tx)
    <3>1. pending' = [pending EXCEPT ![tx] = @ + 1]
      BY <1>6, <2>1 DEF AddTransaction
    <3>2. pending'[tx] = pending[tx] + 1
      BY <1>5, <3>1 DEF TypeOK, TxBag
    <3> QED
      BY <1>8, <2>1, <3>2
  <2>2. CASE ~TxVerify(tx)
    <3>1. pending' = pending
      BY <1>6, <2>2 DEF vars
    <3> QED
      BY <1>8, <2>2, <3>1
  <2> QED
    BY <2>1, <2>2
<1>10. posted'.pooled <=> posted'.fresh
  BY <1>6, <1>7, <1>9, Zenon
<1> QED
  BY <1>10 DEF PooledIfFresh

----------------------------------------------------------------------------
(* The requests under way *)

\* The first n entries lie on the chain in their order.
Placed(ch, e, n) ==
    \E at \in [1 .. n -> 1 .. Len(ch)] :
        /\ \A i, j \in 1 .. n : i < j => at[i] < at[j]
        /\ \A i \in 1 .. n : ch[at[i]] = e[i]

\* What a reader handles: where the loop over the entries is, that the entries
\* before lie on the chain, and that all do when it has ended well.
CallRecord == [entries : Seq(Block), next : Nat \ {0}, answer : {"none", "success", "failure"},
               vote : {<<>>} \cup (Node \X (1 .. MaxTerm))]
Reached(c) ==
    /\ c.next - 1 <= Len(c.entries)
    /\ c.entries # <<>> /\ c.answer = "none" => c.next <= Len(c.entries)
    /\ c.answer = "success" => c.next - 1 = Len(c.entries)
Calls == call \in [Reader -> CallRecord]
         /\ \A r \in Reader : Reached(call[r]) /\ Placed(chain, call[r].entries, call[r].next - 1)

HInv == TypeOK /\ now \in 0 .. MaxTime /\ Calls /\ PooledIfFresh

\* Nothing is placed anywhere.
LEMMA PlacedNone == ASSUME NEW ch, NEW e PROVE Placed(ch, e, 0)
<1> DEFINE at == [i \in 1 .. 0 |-> 1]
<1>1. at \in [1 .. 0 -> 1 .. Len(ch)]
  OBVIOUS
<1>2. \A i \in 1 .. 0 : FALSE
  OBVIOUS
<1> HIDE DEF at
<1>3. \A i, j \in 1 .. 0 : i < j => at[i] < at[j]
  BY <1>2
<1>4. \A i \in 1 .. 0 : ch[at[i]] = e[i]
  BY <1>2
<1> QED
  BY <1>1, <1>3, <1>4 DEF Placed

\* A chain that grows keeps what lies on it ...
LEMMA PlacedLater ==
    ASSUME NEW ch, NEW more, NEW e, NEW n \in Nat, Placed(ch, e, n),
           Len(ch) \in Nat, Len(more) \in Nat, Len(ch) <= Len(more),
           \A k \in 1 .. Len(ch) : more[k] = ch[k]
    PROVE  Placed(more, e, n)
<1>1. PICK at \in [1 .. n -> 1 .. Len(ch)] :
         /\ \A i, j \in 1 .. n : i < j => at[i] < at[j]
         /\ \A i \in 1 .. n : ch[at[i]] = e[i]
  BY DEF Placed
<1>2. at \in [1 .. n -> 1 .. Len(more)]
  BY <1>1
<1>3. \A i \in 1 .. n : more[at[i]] = e[i]
  BY <1>1
<1> QED
  BY <1>1, <1>2, <1>3 DEF Placed

\* ... and a block at its end comes behind all of them.
LEMMA PlacedNext ==
    ASSUME NEW ch, NEW more, NEW e, NEW n \in Nat, Placed(ch, e, n),
           Len(ch) \in Nat, Len(more) = Len(ch) + 1,
           \A k \in 1 .. Len(ch) : more[k] = ch[k],
           more[Len(ch) + 1] = e[n + 1]
    PROVE  Placed(more, e, n + 1)
<1>1. PICK at \in [1 .. n -> 1 .. Len(ch)] :
         /\ \A i, j \in 1 .. n : i < j => at[i] < at[j]
         /\ \A i \in 1 .. n : ch[at[i]] = e[i]
  BY DEF Placed
<1> DEFINE N == Len(ch)
           to == [i \in 1 .. n + 1 |-> IF i = n + 1 THEN N + 1 ELSE at[i]]
<1>2. N \in Nat /\ Len(more) = N + 1
  OBVIOUS
<1> HIDE DEF N
<1>3. \A i \in 1 .. n + 1 : i # n + 1 => i \in 1 .. n
  OBVIOUS
<1>4. \A i \in 1 .. n : at[i] \in 1 .. N
  BY <1>1 DEF N
<1>5. to \in [1 .. n + 1 -> 1 .. Len(more)]
  BY <1>2, <1>3, <1>4
<1>6. ASSUME NEW i \in 1 .. n + 1, NEW j \in 1 .. n + 1, i < j PROVE to[i] < to[j]
  <2>1. i \in 1 .. n
    BY <1>6
  <2>2. to[i] = at[i] /\ at[i] \in 1 .. N
    BY <1>4, <2>1
  <2> QED
    BY <1>1, <1>2, <1>3, <1>6, <2>1, <2>2
<1>7. ASSUME NEW i \in 1 .. n + 1 PROVE more[to[i]] = e[i]
  <2>1. CASE i = n + 1
    <3>1. to[i] = N + 1
      BY <2>1
    <3> QED
      BY <2>1, <3>1 DEF N
  <2>2. CASE i # n + 1
    <3>1. i \in 1 .. n /\ to[i] = at[i]
      BY <1>3, <2>2
    <3> QED
      BY <1>1, <1>4, <3>1 DEF N
  <2> QED
    BY <2>1, <2>2
<1> HIDE DEF to
<1> QED
  BY <1>5, <1>6, <1>7 DEF Placed

----------------------------------------------------------------------------
(* Steps *)

\* A block that is added leaves the ones before it where they are.
LEMMA AddKeeps ==
    ASSUME TypeOK, NEW b \in Block, AddBlock(b)
    PROVE  /\ TypeOK'
           /\ \A e \in Seq(Block), n \in Nat : Placed(chain, e, n) => Placed(chain', e, n)
           /\ \A e \in Seq(Block), n \in Nat :
                  Placed(chain, e, n) /\ e[n + 1] = b => Placed(chain', e, n + 1)
<1>1. /\ TypeOK' /\ Len(chain) \in Nat \ {0} /\ Len(chain') = Len(chain) + 1
      /\ \A k \in 1 .. Len(chain) : chain'[k] = chain[k]
      /\ chain'[Len(chain) + 1] = b
  BY AddBlockStep
<1>2. ASSUME NEW e \in Seq(Block), NEW n \in Nat, Placed(chain, e, n)
      PROVE  Placed(chain', e, n)
  <2>1. Len(chain) \in Nat /\ Len(chain') \in Nat /\ Len(chain) <= Len(chain')
    BY <1>1
  <2> QED
    BY <1>1, <1>2, <2>1, PlacedLater
<1>3. ASSUME NEW e \in Seq(Block), NEW n \in Nat, Placed(chain, e, n), e[n + 1] = b
      PROVE  Placed(chain', e, n + 1)
  BY <1>1, <1>3, PlacedNext
<1> QED
  BY <1>1, <1>2, <1>3

\* One reader gets a new record; the chain only grew.
LEMMA CallsAfter ==
    ASSUME Calls, NEW r \in Reader, NEW c \in CallRecord, Reached(c),
           call' = [call EXCEPT ![r] = c],
           \A e \in Seq(Block), n \in Nat : Placed(chain, e, n) => Placed(chain', e, n),
           Placed(chain', c.entries, c.next - 1)
    PROVE  Calls'
<1>1. \A u \in Reader : call'[u] = IF u = r THEN c ELSE call[u]
  BY DEF Calls
<1>2. call' \in [Reader -> CallRecord]
  BY DEF Calls
<1>3. ASSUME NEW u \in Reader
      PROVE  Reached(call'[u]) /\ Placed(chain', call'[u].entries, call'[u].next - 1)
  <2>1. CASE u = r
    BY <1>1, <2>1
  <2>2. CASE u # r
    <3>1. /\ call'[u] = call[u] /\ call[u].entries \in Seq(Block) /\ call[u].next - 1 \in Nat
          /\ Reached(call[u]) /\ Placed(chain, call[u].entries, call[u].next - 1)
      BY <1>1, <2>2 DEF Calls, CallRecord
    <3> QED
      BY <3>1
  <2> QED
    BY <2>1, <2>2
<1> QED
  BY <1>2, <1>3 DEF Calls

\* A request before its first entry.
LEMMA FreshRecord ==
    ASSUME NEW e \in Seq(Block), NEW v \in {<<>>} \cup (Node \X (1 .. MaxTerm)),
           NEW a \in {"none", "success"}, a = "none" \/ Len(e) = 0,
           NEW c, c = [entries |-> e, next |-> 1, answer |-> a, vote |-> v]
    PROVE  c \in CallRecord /\ Reached(c) /\ c.next - 1 = 0
<1>1. Len(e) \in Nat /\ (e # <<>> => Len(e) # 0)
  BY EmptySeq, LenProperties
<1>2. c.entries = e /\ c.next = 1 /\ c.answer = a
  OBVIOUS
<1>3. c \in CallRecord
  BY DEF CallRecord
<1> QED
  BY <1>1, <1>2, <1>3 DEF Reached

\* What the readers' records are before any message.
LEMMA IdleRecord ==
    /\ Idle \in CallRecord /\ Reached(Idle) /\ Idle.next - 1 = 0
    /\ \A v \in {<<>>} \cup (Node \X (1 .. MaxTerm)) :
          /\ [Idle EXCEPT !.vote = v] \in CallRecord
          /\ Reached([Idle EXCEPT !.vote = v])
          /\ [Idle EXCEPT !.vote = v].next - 1 = 0
    /\ \A e \in Entries :
          /\ [Idle EXCEPT !.entries = e] \in CallRecord
          /\ Reached([Idle EXCEPT !.entries = e])
          /\ [Idle EXCEPT !.entries = e].next - 1 = 0
<1>1. <<>> \in Seq(Block)
  BY EmptySeq
<1>2. Idle \in CallRecord /\ Reached(Idle) /\ Idle.next - 1 = 0
  BY <1>1, FreshRecord DEF Idle
<1>3. ASSUME NEW v \in {<<>>} \cup (Node \X (1 .. MaxTerm))
      PROVE  /\ [Idle EXCEPT !.vote = v] \in CallRecord
             /\ Reached([Idle EXCEPT !.vote = v])
             /\ [Idle EXCEPT !.vote = v].next - 1 = 0
  <2>1. [Idle EXCEPT !.vote = v] = [entries |-> <<>>, next |-> 1, answer |-> "none", vote |-> v]
    BY DEF Idle
  <2> QED
    BY <1>1, <2>1, FreshRecord
<1>4. ASSUME NEW e \in Entries
      PROVE  /\ [Idle EXCEPT !.entries = e] \in CallRecord
             /\ Reached([Idle EXCEPT !.entries = e])
             /\ [Idle EXCEPT !.entries = e].next - 1 = 0
  <2>1. PICK n \in 1 .. MaxEntries : e \in [1 .. n -> BlockArgs]
    BY DEF Entries
  <2>2. n \in Nat /\ e \in [1 .. n -> Block]
    BY <2>1, HandlersAssumption, BlockchainAssumption
  <2>3. e \in Seq(Block)
    BY <2>2, SeqDef
  <2>4. [Idle EXCEPT !.entries = e] = [entries |-> e, next |-> 1, answer |-> "none", vote |-> <<>>]
    BY DEF Idle
  <2> QED
    BY <2>3, <2>4, FreshRecord
<1> QED
  BY <1>2, <1>3, <1>4

\* A step that leaves the readers alone and the chain as it is.
LEMMA ChainKept ==
    ASSUME HInv, chain' = chain, call' = call, TypeOK', now' \in 0 .. MaxTime, PooledIfFresh'
    PROVE  HInv'
BY DEF HInv, Calls

\* A step of a reader that leaves chain and pool alone.
LEMMA OnlyReader ==
    ASSUME HInv, NEW r \in Reader, NEW c \in CallRecord, Reached(c),
           call' = [call EXCEPT ![r] = c], UNCHANGED <<vars, now>>, posted' = NoPost,
           Placed(chain, c.entries, c.next - 1)
    PROVE  HInv'
<1>1. chain' = chain /\ pending' = pending /\ mutex' = mutex /\ now' = now
  BY DEF vars
<1>2. Calls'
  BY <1>1, CallsAfter DEF HInv
<1>3. TypeOK'
  BY <1>1 DEF HInv, TypeOK
<1>4. PooledIfFresh'
  BY DEF PooledIfFresh, NoPost
<1> QED
  BY <1>1, <1>2, <1>3, <1>4 DEF HInv

LEMMA MessageStep ==
    ASSUME HInv, NEW r \in Reader,
           HandleAppendEntries(r) \/ HandleHeartbeat(r) \/ HandleRequestVote(r) \/ RefuseEntry(r)
    PROVE  HInv'
<1>1. CASE HandleAppendEntries(r)
  <2>1. PICK e \in Entries : call' = [call EXCEPT ![r] = [Idle EXCEPT !.entries = e]]
    BY <1>1 DEF HandleAppendEntries
  <2> DEFINE c == [Idle EXCEPT !.entries = e]
  <2>2. c \in CallRecord /\ Reached(c) /\ c.next - 1 = 0
    BY IdleRecord
  <2>3. call' = [call EXCEPT ![r] = c] /\ UNCHANGED <<vars, now>> /\ posted' = NoPost
    BY <1>1, <2>1 DEF HandleAppendEntries
  <2> HIDE DEF c
  <2> QED
    BY <2>2, <2>3, OnlyReader, PlacedNone
<1>2. CASE HandleHeartbeat(r)
  <2> DEFINE c == [Idle EXCEPT !.answer = "success"]
  <2>1. c \in CallRecord /\ Reached(c) /\ c.next - 1 = 0
    <3>1. c = [entries |-> <<>>, next |-> 1, answer |-> "success", vote |-> <<>>]
      BY DEF Idle
    <3>2. <<>> \in Seq(Block) /\ Len(<<>>) = 0
      BY EmptySeq
    <3> HIDE DEF c
    <3> QED
      BY <3>1, <3>2, FreshRecord
  <2>2. call' = [call EXCEPT ![r] = c] /\ UNCHANGED <<vars, now>> /\ posted' = NoPost
    BY <1>2 DEF HandleHeartbeat
  <2> HIDE DEF c
  <2> QED
    BY <2>1, <2>2, OnlyReader, PlacedNone
<1>3. CASE HandleRequestVote(r)
  <2>1. PICK n \in Node, term \in 1 .. MaxTerm : call' = [call EXCEPT ![r] = [Idle EXCEPT !.vote = <<n, term>>]]
    BY <1>3 DEF HandleRequestVote
  <2> DEFINE c == [Idle EXCEPT !.vote = <<n, term>>]
  <2>2. c \in CallRecord /\ Reached(c) /\ c.next - 1 = 0
    BY IdleRecord
  <2>3. call' = [call EXCEPT ![r] = c] /\ UNCHANGED <<vars, now>> /\ posted' = NoPost
    BY <1>3, <2>1 DEF HandleRequestVote
  <2> HIDE DEF c
  <2> QED
    BY <2>2, <2>3, OnlyReader, PlacedNone
<1>4. CASE RefuseEntry(r)
  <2> DEFINE c == [call[r] EXCEPT !.answer = "failure"]
  <2>1. call[r] \in CallRecord /\ Reached(call[r]) /\ Placed(chain, call[r].entries, call[r].next - 1)
    BY DEF HInv, Calls
  <2>2. c \in CallRecord /\ Reached(c) /\ c.entries = call[r].entries /\ c.next = call[r].next
    BY <2>1 DEF CallRecord, Reached
  <2>3. call' = [call EXCEPT ![r] = c] /\ UNCHANGED <<vars, now>> /\ posted' = NoPost
    BY <1>4 DEF RefuseEntry
  <2> HIDE DEF c
  <2> QED
    BY <2>1, <2>2, <2>3, OnlyReader
<1> QED
  BY <1>1, <1>2, <1>3, <1>4

\* A reader's record after an entry.
After(o, n, a) == [o EXCEPT !.next = n, !.answer = a]
LEMMA RecordAfter ==
    ASSUME NEW o \in CallRecord, NEW n \in Nat \ {0}, NEW a \in {"none", "success", "failure"}
    PROVE  /\ After(o, n, a) \in CallRecord
           /\ After(o, n, a).entries = o.entries
           /\ After(o, n, a).next = n
           /\ After(o, n, a).answer = a
BY DEF CallRecord, After

\* The entry the loop has come to.
LEMMA EntryFinds ==
    ASSUME HInv, NEW r \in Reader, AddEntry(r)
    PROVE  /\ call[r] \in CallRecord /\ call[r].entries \in Seq(Block)
           /\ call[r].next \in 1 .. Len(call[r].entries)
           /\ call[r].entries[call[r].next] \in Block
           /\ AddBlock(call[r].entries[call[r].next])
           /\ Placed(chain, call[r].entries, call[r].next - 1)
<1>1. call[r] \in CallRecord /\ Reached(call[r]) /\ Placed(chain, call[r].entries, call[r].next - 1)
  BY DEF HInv, Calls
<1>2. call[r].entries # <<>> /\ call[r].answer = "none"
  BY DEF AddEntry, Handling
<1>3. call[r].entries \in Seq(Block) /\ call[r].next \in 1 .. Len(call[r].entries)
  BY <1>1, <1>2, LenProperties DEF CallRecord, Reached
<1>4. call[r].entries[call[r].next] \in Block
  BY <1>3, ElementOfSeq
<1> QED
  BY <1>1, <1>3, <1>4 DEF AddEntry, Entry

\* One AddBlock of the loop.
LEMMA AddEntryStep ==
    ASSUME HInv, NEW r \in Reader, AddEntry(r)
    PROVE  HInv'
<1>0. TypeOK /\ Calls
  BY DEF HInv
<1> DEFINE o == call[r]
           e == o.entries
           a == IF o.next = Len(e) THEN "success" ELSE "none"
           c == After(o, o.next + 1, a)
<1>1. call' = [call EXCEPT ![r] = c] /\ posted' = NoPost /\ now' = now
  BY <1>0 DEF AddEntry, LastEntry, Calls, After
<1>2. /\ o \in CallRecord /\ e \in Seq(Block) /\ o.next \in 1 .. Len(e)
      /\ e[o.next] \in Block /\ AddBlock(e[o.next]) /\ Placed(chain, e, o.next - 1)
  BY EntryFinds
<1>3. Len(e) \in Nat
  BY <1>2, LenProperties
<1>4. a \in {"none", "success", "failure"}
  OBVIOUS
<1> HIDE DEF o
<1>5. o.next + 1 \in Nat \ {0} /\ o.next - 1 \in Nat /\ (o.next - 1) + 1 = o.next
  BY <1>2, <1>3
<1>6. c \in CallRecord /\ c.entries = e /\ c.next = o.next + 1 /\ c.answer = a
  <2> DEFINE n == o.next + 1
  <2>1. n \in Nat \ {0} /\ c = After(o, n, a)
    BY <1>5
  <2> HIDE DEF a, n, c
  <2>2. o \in CallRecord /\ a \in {"none", "success", "failure"}
    BY <1>2, <1>4
  <2>3. /\ After(o, n, a) \in CallRecord /\ After(o, n, a).entries = o.entries
        /\ After(o, n, a).next = n /\ After(o, n, a).answer = a
    BY <2>1, <2>2, RecordAfter
  <2> QED
    BY <2>1, <2>3 DEF n
<1>7. Reached(c)
  <2> HIDE DEF c
  <2> QED
    BY <1>2, <1>3, <1>6 DEF Reached
<1>8. /\ TypeOK'
      /\ \A q \in Seq(Block), n \in Nat : Placed(chain, q, n) => Placed(chain', q, n)
      /\ Placed(chain', e, o.next)
  <2>1. \A q \in Seq(Block), n \in Nat :
           Placed(chain, q, n) /\ q[n + 1] = e[o.next] => Placed(chain', q, n + 1)
    BY <1>0, <1>2, AddKeeps
  <2>2. e[(o.next - 1) + 1] = e[o.next]
    BY <1>5
  <2>3. Placed(chain', e, (o.next - 1) + 1)
    <3> HIDE DEF e
    <3> QED
      BY <1>2, <1>5, <2>1, <2>2
  <2> QED
    BY <1>0, <1>2, <1>5, <2>3, AddKeeps
<1>9. Placed(chain', c.entries, c.next - 1)
  <2>1. c.next - 1 = o.next
    BY <1>2, <1>3, <1>6
  <2> QED
    BY <1>6, <1>8, <2>1
<1> HIDE DEF c, e, a
<1>10. Calls'
  BY <1>0, <1>1, <1>6, <1>7, <1>8, <1>9, CallsAfter
<1>11. PooledIfFresh'
  BY <1>1 DEF PooledIfFresh, NoPost
<1> QED
  BY <1>1, <1>8, <1>10, <1>11 DEF HInv

LEMMA NewBlockStep ==
    ASSUME HInv, NEW r \in Reader, HandleNewBlock(r)
    PROVE  HInv'
<1>0. TypeOK /\ Calls
  BY DEF HInv
<1>1. PICK b \in BlockArgs : AddBlock(b)
  BY DEF HandleNewBlock
<1>2. /\ TypeOK'
      /\ \A e \in Seq(Block), n \in Nat : Placed(chain, e, n) => Placed(chain', e, n)
  BY <1>0, <1>1, AddKeeps, BlockchainAssumption
<1>3. call' = [call EXCEPT ![r] = Idle] /\ posted' = NoPost /\ now' = now
  BY DEF HandleNewBlock
<1>4. Calls'
  BY <1>0, <1>2, <1>3, IdleRecord, CallsAfter, PlacedNone
<1>5. PooledIfFresh'
  BY <1>3 DEF PooledIfFresh, NoPost
<1> QED
  BY <1>2, <1>3, <1>4, <1>5 DEF HInv

LEMMA AddTransactionKeeps ==
    ASSUME TypeOK, NEW tx \in Tx, AddTransaction(tx)
    PROVE  TypeOK' /\ chain' = chain
<1>1. pending' \in TxBag
  BY DEF AddTransaction, TypeOK, TxBag
<1> QED
  BY <1>1 DEF AddTransaction, TypeOK

LEMMA NewTxStep ==
    ASSUME HInv, NEW r \in Reader, HandleNewTx(r)
    PROVE  HInv'
<1>0. TypeOK /\ Calls
  BY DEF HInv
<1>1. TypeOK' /\ chain' = chain
  BY <1>0, AddTransactionKeeps, BlockchainAssumption DEF HandleNewTx
<1>2. call' = [call EXCEPT ![r] = Idle] /\ posted' = NoPost /\ now' = now
  BY DEF HandleNewTx
<1>3. Calls'
  BY <1>0, <1>1, <1>2, IdleRecord, CallsAfter, PlacedNone
<1>4. PooledIfFresh'
  BY <1>2 DEF PooledIfFresh, NoPost
<1> QED
  BY <1>1, <1>2, <1>3, <1>4 DEF HInv

\* What a client posts is a transaction.
LEMMA PostCalls ==
    ASSUME now \in 0 .. MaxTime, NEW body \in Body \ SystemBody, NEW pair \in Pairs, Post(body, pair)
    PROVE  (\E tx \in Tx : AddTransaction(tx)) \/ UNCHANGED vars
<1> DEFINE tx == [id |-> Stamp(body), body |-> Stamp(body), sig |-> Verdict(body, Stamp(body), pair)]
<1>1. Stamp(body) \in Body
  BY HandlersAssumption DEF Stamp
<1>2. tx \in Tx
  BY <1>1, BodyAssumption DEF Tx, Sig, Verdict
<1>3. AddTransaction(tx) \/ UNCHANGED vars
  BY DEF Post
<1> HIDE DEF tx
<1> QED
  BY <1>2, <1>3

LEMMA PostStep ==
    ASSUME HInv, NEW body \in Body \ SystemBody, NEW pair \in Pairs, Post(body, pair)
    PROVE  HInv'
<1>0. TypeOK /\ now \in 0 .. MaxTime
  BY DEF HInv
<1>1. TypeOK' /\ chain' = chain
  <2>1. CASE \E tx \in Tx : AddTransaction(tx)
    BY <1>0, <2>1, AddTransactionKeeps
  <2>2. CASE UNCHANGED vars
    BY <1>0, <2>2 DEF vars, TypeOK
  <2> QED
    BY <1>0, <2>1, <2>2, PostCalls
<1>2. PooledIfFresh'
  BY <1>0, PostKeepsFresh
<1>3. call' = call /\ now' = now
  BY DEF Post
<1> QED
  BY <1>0, <1>1, <1>2, <1>3, ChainKept

LEMMA TimeStep ==
    ASSUME HInv, TimePasses
    PROVE  HInv'
<1>1. now' \in 0 .. MaxTime
  BY HandlersAssumption DEF TimePasses, HInv
<1>2. TypeOK' /\ PooledIfFresh' /\ chain' = chain /\ call' = call
  BY DEF TimePasses, HInv, vars, TypeOK, PooledIfFresh, NoPost
<1> QED
  BY <1>1, <1>2, ChainKept

LEMMA HInvStep ==
    ASSUME HInv, [HNext]_hvars
    PROVE  HInv'
<1>1. CASE UNCHANGED hvars
  BY <1>1 DEF hvars, HInv, TypeOK, Calls, PooledIfFresh
<1>2. CASE HNext
  BY <1>2, MessageStep, AddEntryStep, NewBlockStep, NewTxStep, PostStep, TimeStep DEF HNext
<1> QED
  BY <1>1, <1>2

LEMMA HInvInit ==
    ASSUME HInit
    PROVE  HInv
<1>1. Init /\ now = 0 /\ call = [r \in Reader |-> Idle] /\ posted = NoPost
  BY DEF HInit
<1>2. TypeOK
  BY <1>1, TypeInit
<1>3. Calls
  BY <1>1, IdleRecord, PlacedNone DEF Calls
<1>4. now \in 0 .. MaxTime /\ PooledIfFresh
  BY <1>1, HandlersAssumption DEF PooledIfFresh, NoPost
<1> QED
  BY <1>2, <1>3, <1>4 DEF HInv

\* The entries a reader has dealt with lie on the chain in their order.
THEOREM HandlersInvariant == HSpec => []HInv
<1>1. HInv /\ [HNext]_hvars => HInv'
  BY HInvStep
<1> QED
  BY <1>1, HInvInit, PTL DEF HSpec

\* A leader that is answered success to its entries finds all of them on the
\* chain of the node, in their order, whatever blocks they are, for any number
\* of readers that add blocks in between.
THEOREM SuccessIsTrue == HSpec => []SuccessMeansStored
<1>1. HInv => SuccessMeansStored
  <2> SUFFICES ASSUME HInv, NEW r \in Reader, call[r].answer = "success"
               PROVE  InOrder(call[r].entries, chain)
    BY DEF SuccessMeansStored
  <2>1. /\ call[r].entries \in Seq(Block) /\ call[r].next - 1 = Len(call[r].entries)
        /\ Placed(chain, call[r].entries, call[r].next - 1)
    BY DEF HInv, Calls, CallRecord, Reached
  <2>2. DOMAIN call[r].entries = 1 .. Len(call[r].entries) /\ DOMAIN chain = 1 .. Len(chain)
    BY <2>1, LenProperties DEF HInv, TypeOK
  <2> QED
    BY <2>1, <2>2 DEF Placed, InOrder
<1> QED
  BY <1>1, HandlersInvariant, PTL

\* Exactly the transactions that were signed in the second of their arrival with
\* two full numbers enter the pool, for numbers of any size.
THEOREM FreshOnly == HSpec => []PooledIfFresh
<1>1. HInv => PooledIfFresh
  BY DEF HInv
<1> QED
  BY <1>1, HandlersInvariant, PTL

----------------------------------------------------------------------------
(* The handlers are callers of Blockchain like any other *)

\* A step of a handler is one call of Blockchain or none.
LEMMA HandlerCalls ==
    ASSUME HInv, [HNext]_hvars
    PROVE  [AnyCall]_vars
<1>1. ASSUME NEW r \in Reader, HandleNewBlock(r) \/ HandleNewTx(r) PROVE AnyCall
  BY <1>1, BlockchainAssumption DEF HandleNewBlock, HandleNewTx, AnyCall
<1>2. ASSUME NEW r \in Reader, AddEntry(r) PROVE AnyCall
  BY <1>2, EntryFinds DEF AnyCall
<1>3. ASSUME NEW body \in Body \ SystemBody, NEW pair \in Pairs, Post(body, pair)
      PROVE  AnyCall \/ UNCHANGED vars
  BY <1>3, PostCalls DEF AnyCall, HInv
<1>4. ASSUME NEW r \in Reader,
             HandleAppendEntries(r) \/ HandleHeartbeat(r) \/ HandleRequestVote(r) \/ RefuseEntry(r)
      PROVE  UNCHANGED vars
  BY <1>4 DEF HandleAppendEntries, HandleHeartbeat, HandleRequestVote, RefuseEntry
<1>5. ASSUME TimePasses \/ UNCHANGED hvars PROVE UNCHANGED vars
  BY <1>5 DEF TimePasses, hvars, vars
<1> QED
  BY <1>1, <1>2, <1>3, <1>4, <1>5 DEF HNext

\* The message handlers and POST /transactions do to the chain and the pool what
\* callers of AddBlock and AddTransaction do, loops over entries included.
THEOREM HandlersAreCallers == HSpec => OpenSpec
<1>1. HInv /\ [HNext]_hvars => [AnyCall]_vars
  BY HandlerCalls
<1>2. HInit => Init
  BY DEF HInit
<1> QED
  BY <1>1, <1>2, HandlersInvariant, PTL DEF HSpec, OpenSpec

\* Whatever blocks and lists of blocks the handlers are sent, made-up index-0
\* blocks included: hashes pin their segments, nothing unverified is pooled or
\* stored above index 0, only a later index-0 block makes ValidateChain refuse
\* the chain, and while there is none every block is found.
THEOREM HandlersKeepChain ==
    HSpec => [](HashPinsHistory /\ OnlyVerifiedTransactions /\ OnlyIndexZeroInvalidates
                /\ LookupsFindEveryBlock)
BY HandlersAreCallers, AnyHistoryIsPinned, AnyVerified, AnyChainValidity, AnyBlockIsFound, PTL

\* The handlers implement the ledger: the chain only grows, and an ID that
\* waits leaves the pool only with the block that records it.
THEOREM HandlersKeepLedger == HSpec => ImplementsLedger
BY HandlersAreCallers, AnyRefinement
=============================================================================
