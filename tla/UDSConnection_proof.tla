-------------------------- MODULE UDSConnection_proof --------------------------
(***************************************************************************)
(* Theorems about UDSConnection, for replies and buffers of any length:    *)
(* the stream a browsing client reads is in order and tells when it is     *)
(* through, and a client is cut off only if it takes nothing.              *)
(***************************************************************************)
EXTENDS UDSConnection, SequenceTheorems, TLAPS

--------------------------------------------------------------------------------
(* The inductive invariant *)

Reply  == [reply : Nat, nwriten : 0..ReplyLen - 1]
Piece  == [reply : Nat, unit : 1..ReplyLen, more : BOOLEAN]

TypeInv ==
  /\ kind \in Kinds
  /\ ts \in {"morecoming", "complete", "freed"}
  /\ replies \in Seq(Reply)
  /\ produced \in Nat
  /\ written \in Seq(Piece)
  /\ taken \in Nat /\ taken <= Len(written) /\ Len(written) <= taken + Room
  /\ time_blocked \in Int
  /\ stuck \in Nat

\* Replies that have left the queue
Gone == produced - Len(replies)

\* The queue goes on where the stream ends: its replies follow those in the
\* stream, and of the first one as much has gone as is there
QueueFits ==
  kind = "browse" /\ ts # "freed" =>
    /\ Gone >= 0
    /\ \A k \in 1..Len(replies) :
         /\ replies[k].reply = Gone + k
         /\ k > 1 => replies[k].nwriten = 0
    /\ Len(written) = ReplyLen * Gone + (IF replies = <<>> THEN 0 ELSE replies[1].nwriten)

\* Whenever a client was told that more comes, there was more
MoreFits ==
  kind = "browse" =>
    \A i \in DOMAIN written : written[i].more => written[i].reply < produced

\* A blockade is of the first reply and not older than it has been stuck
BlockedFits ==
  time_blocked # NotBlocked => replies # <<>> /\ time_blocked <= stuck

Inv == TypeInv /\ QueueFits /\ StreamInOrder /\ MoreFits /\ BlockedFits

--------------------------------------------------------------------------------
(* Lengths and lists *)

LEMMA LengthFacts ==
  /\ ReplyLen \in Nat \ {0} /\ Room \in Nat \ {0}
  /\ MaxTimeBlocked \in Nat \ {0}
BY ConnectionAssumption

LEMMA OneMore ==
  ASSUME NEW n \in Int
  PROVE  ReplyLen * (n + 1) = ReplyLen * n + ReplyLen
BY LengthFacts

LEMMA NotBehind ==
  ASSUME NEW m \in Int, NEW n \in Int, NEW unit \in 1..ReplyLen,
         ReplyLen * m + 1 = ReplyLen * n + unit
  PROVE  n >= m
<1> SUFFICES ASSUME n + 1 <= m
             PROVE  FALSE
  OBVIOUS
<1>1. m - (n + 1) \in Nat /\ m = (m - (n + 1)) + (n + 1)
  OBVIOUS
<1>2. ReplyLen * m = ReplyLen * (m - (n + 1)) + ReplyLen * (n + 1)
  BY LengthFacts
<1>3. ReplyLen * (m - (n + 1)) \in Nat
  BY <1>1, LengthFacts
<1>4. ReplyLen * n \in Int /\ ReplyLen * (n + 1) = ReplyLen * n + ReplyLen
  BY LengthFacts, OneMore
<1> QED
  BY <1>2, <1>3, <1>4, LengthFacts

LEMMA PlaceFacts ==
  ASSUME NEW n \in Nat, NEW nwriten \in Nat, NEW len \in Nat, NEW i \in Nat,
         NEW reply, NEW unit,
         len = ReplyLen * n + nwriten, reply = n + 1, unit = nwriten + (i - len)
  PROVE  i = ReplyLen * (reply - 1) + unit
<1>1. PICK m \in Nat : m = ReplyLen * n
  BY LengthFacts
<1>2. reply - 1 = n
  OBVIOUS
<1>3. i = m + unit
  BY <1>1
<1> QED
  BY <1>1, <1>2, <1>3

LEMMA UnitsFacts ==
  ASSUME NEW rep \in Reply, NEW n \in 0..ReplyLen - rep.nwriten, NEW more \in BOOLEAN
  PROVE  /\ Units(rep, n, more) \in Seq(Piece)
         /\ Len(Units(rep, n, more)) = n
         /\ \A i \in 1..n : /\ Units(rep, n, more)[i].reply = rep.reply
                            /\ Units(rep, n, more)[i].unit = rep.nwriten + i
                            /\ Units(rep, n, more)[i].more = more
<1> DEFINE unit(i) == [reply |-> rep.reply, unit |-> rep.nwriten + i, more |-> more]
<1>1. rep.reply \in Nat /\ rep.nwriten \in 0..ReplyLen - 1
  BY DEF Reply
<1>2. \A i \in 1..n : unit(i) \in Piece
  BY <1>1, LengthFacts DEF Piece
<1>3. Units(rep, n, more) = [i \in 1..n |-> unit(i)]
  BY DEF Units
<1>4. n \in Nat
  BY <1>1, LengthFacts
<1>5. \A i \in 1..n : /\ unit(i).reply = rep.reply
                      /\ unit(i).unit = rep.nwriten + i
                      /\ unit(i).more = more
  OBVIOUS
<1> HIDE DEF unit
<1>6. Units(rep, n, more) \in Seq(Piece)
  BY <1>2, <1>3, <1>4
<1>7. Len(Units(rep, n, more)) = n
  BY <1>3, <1>4, <1>6
<1> QED
  BY <1>3, <1>5, <1>6, <1>7

LEMMA PieceFacts ==
  ASSUME TypeInv, NEW i \in DOMAIN written
  PROVE  written[i].reply \in Nat /\ written[i].unit \in 1..ReplyLen /\ written[i].more \in BOOLEAN
<1>1. written[i] \in Piece
  BY ElementOfSeq DEF TypeInv
<1> QED
  BY <1>1 DEF Piece

LEMMA FitsFacts ==
  ASSUME TypeInv, NEW n \in 0..ReplyLen - 1
  PROVE  /\ Fits(n) \in 0..ReplyLen - n
         /\ Len(written) + Fits(n) <= taken + Room
<1>1. Len(written) \in Nat
  BY DEF TypeInv
<1> QED
  BY <1>1, LengthFacts DEF Fits, Unread, TypeInv

\* What the stream is after units of a reply have been put into it
LEMMA WriteFacts ==
  ASSUME TypeInv, NEW rep \in Reply, NEW more \in BOOLEAN,
         written' = written \o Units(rep, Fits(rep.nwriten), more)
  PROVE  /\ written' \in Seq(Piece)
         /\ Len(written') = Len(written) + Fits(rep.nwriten)
         /\ Len(written') <= taken + Room
         /\ Fits(rep.nwriten) \in 0..ReplyLen - rep.nwriten
         /\ \A i \in DOMAIN written : i \in DOMAIN written' /\ written'[i] = written[i]
         /\ \A i \in DOMAIN written' :
              \/ i \in DOMAIN written
              \/ /\ i - Len(written) \in 1..Fits(rep.nwriten)
                 /\ written'[i].reply = rep.reply
                 /\ written'[i].unit = rep.nwriten + (i - Len(written))
                 /\ written'[i].more = more
<1> DEFINE n == Fits(rep.nwriten)
           new == Units(rep, n, more)
<1>1. /\ n \in 0..ReplyLen - rep.nwriten
      /\ Len(written) + n <= taken + Room
  BY FitsFacts DEF Reply
<1>2. /\ new \in Seq(Piece)
      /\ Len(new) = n
      /\ \A i \in 1..n : /\ new[i].reply = rep.reply
                         /\ new[i].unit = rep.nwriten + i
                         /\ new[i].more = more
  BY <1>1, UnitsFacts
<1>3. written \in Seq(Piece) /\ Len(written) \in Nat /\ DOMAIN written = 1..Len(written)
  BY DEF TypeInv
<1>4. written' = written \o new
  OBVIOUS
<1> HIDE DEF n, new
<1>5. /\ written' \in Seq(Piece)
      /\ Len(written') = Len(written) + n
      /\ \A i \in 1..Len(written) + n :
           written'[i] = IF i <= Len(written) THEN written[i] ELSE new[i - Len(written)]
  BY <1>2, <1>3, <1>4, ConcatProperties
<1>6. n \in Nat
  BY <1>1, LengthFacts DEF Reply
<1>7. DOMAIN written' = 1..Len(written) + n
  BY <1>5
<1>8. \A i \in DOMAIN written : i \in DOMAIN written' /\ written'[i] = written[i]
  BY <1>3, <1>5, <1>6, <1>7
<1>9. ASSUME NEW i \in DOMAIN written', i \notin DOMAIN written
      PROVE  /\ i - Len(written) \in 1..n
             /\ written'[i].reply = rep.reply
             /\ written'[i].unit = rep.nwriten + (i - Len(written))
             /\ written'[i].more = more
  <2>1. i - Len(written) \in 1..n /\ ~(i <= Len(written))
    BY <1>3, <1>6, <1>7, <1>9
  <2>2. written'[i] = new[i - Len(written)]
    BY <1>5, <1>7, <1>9, <2>1
  <2> QED
    BY <1>2, <2>1, <2>2
<1> QED
  BY <1>1, <1>5, <1>8, <1>9 DEF n

--------------------------------------------------------------------------------
(* What the steps do to the stream *)

\* Steps that leave the replies alone
LEMMA FrameStep ==
  ASSUME Inv, UNCHANGED <<kind, replies, produced, written>>,
         ts' \in {"morecoming", "complete", "freed"}, ts = "freed" => ts' = "freed",
         taken' \in {taken, taken + 1}, taken' <= Len(written),
         \/ UNCHANGED <<time_blocked, stuck>>
         \/ time_blocked' \in {time_blocked, time_blocked + 1} /\ stuck' = stuck + 1
         \/ time_blocked' = time_blocked + 1 /\ time_blocked # NotBlocked /\ stuck' = stuck + 1,
         time_blocked = NotBlocked => time_blocked' = NotBlocked
  PROVE  Inv'
<1>1. Len(written) \in Nat
  BY DEF Inv, TypeInv
<1>2. TypeInv'
  BY <1>1, LengthFacts DEF Inv, TypeInv
<1>3. (QueueFits /\ StreamInOrder /\ MoreFits)'
  BY DEF Inv, QueueFits, Gone, StreamInOrder, MoreFits
<1>4. BlockedFits'
  BY DEF Inv, TypeInv, BlockedFits
<1> QED
  BY <1>2, <1>3, <1>4 DEF Inv

\* The end of a request; the stream goes as it is
LEMMA FreeStep ==
  ASSUME Inv, Free, UNCHANGED <<kind, written, taken>>, produced' \in {produced, produced + 1}
  PROVE  Inv'
<1>1. TypeInv'
  BY DEF Inv, TypeInv, Free, NotBlocked
<1>2. QueueFits' /\ BlockedFits'
  BY DEF Free, QueueFits, BlockedFits
<1>3. StreamInOrder'
  BY DEF Inv, StreamInOrder
<1>4. MoreFits'
  <2> SUFFICES ASSUME kind = "browse", NEW i \in DOMAIN written, written[i].more
               PROVE  written[i].reply < produced'
    BY DEF MoreFits
  <2>1. written[i].reply < produced /\ written[i].reply \in Nat
    BY PieceFacts DEF Inv, MoreFits
  <2> QED
    BY <2>1 DEF Inv, TypeInv
<1> QED
  BY <1>1, <1>2, <1>3, <1>4 DEF Inv

LEMMA QueueReplyStep ==
  ASSUME Inv, QueueReply
  PROVE  Inv'
<1> DEFINE rep == [reply |-> produced + 1, nwriten |-> 0]
<1>1. /\ UNCHANGED <<kind, ts, written, taken, time_blocked>>
      /\ produced' = produced + 1
      /\ replies' = Append(replies, rep)
      /\ stuck' = IF replies = <<>> THEN 0 ELSE stuck
  BY DEF QueueReply, Answering, append_reply
<1>2. rep \in Reply
  BY LengthFacts DEF Inv, TypeInv, Reply
<1>3. /\ replies \in Seq(Reply) /\ Len(replies) \in Nat /\ produced \in Nat
      /\ rep.reply = produced + 1 /\ rep.nwriten = 0
  BY DEF Inv, TypeInv
<1> HIDE DEF rep
<1>4. /\ replies' \in Seq(Reply)
      /\ Len(replies') = Len(replies) + 1
      /\ \A k \in 1..Len(replies) : replies'[k] = replies[k]
      /\ replies'[Len(replies) + 1] = rep
  BY <1>1, <1>2, <1>3, AppendProperties
<1>5. TypeInv'
  BY <1>1, <1>3, <1>4 DEF Inv, TypeInv
<1>6. Gone' = Gone
  BY <1>1, <1>3, <1>4 DEF Gone
<1>7. QueueFits'
  <2> SUFFICES ASSUME kind = "browse", ts # "freed"
               PROVE  /\ Gone >= 0
                      /\ \A k \in 1..Len(replies') :
                           /\ replies'[k].reply = Gone + k
                           /\ k > 1 => replies'[k].nwriten = 0
                      /\ Len(written) = ReplyLen * Gone + replies'[1].nwriten
    BY <1>1, <1>4, <1>3, <1>6 DEF QueueFits
  <2>1. /\ Gone >= 0
        /\ \A k \in 1..Len(replies) :
             /\ replies[k].reply = Gone + k
             /\ k > 1 => replies[k].nwriten = 0
        /\ Len(written) = ReplyLen * Gone + (IF replies = <<>> THEN 0 ELSE replies[1].nwriten)
    BY DEF Inv, QueueFits
  <2>2. ASSUME NEW k \in 1..Len(replies')
        PROVE  /\ replies'[k].reply = Gone + k
               /\ k > 1 => replies'[k].nwriten = 0
    <3>1. CASE k \in 1..Len(replies)
      BY <1>4, <2>1, <3>1
    <3>2. CASE k = Len(replies) + 1
      BY <1>3, <1>4, <3>2 DEF Gone
    <3> QED
      BY <1>3, <1>4, <3>1, <3>2
  <2>3. replies'[1].nwriten = IF replies = <<>> THEN 0 ELSE replies[1].nwriten
    <3>1. CASE replies = <<>>
      BY <1>3, <1>4, <3>1
    <3>2. CASE replies # <<>>
      BY <1>3, <1>4, <3>2, EmptySeq
    <3> QED
      BY <3>1, <3>2
  <2> QED
    BY <2>1, <2>2, <2>3
<1>8. StreamInOrder'
  BY <1>1 DEF Inv, StreamInOrder
<1>9. MoreFits'
  <2> SUFFICES ASSUME kind = "browse", NEW i \in DOMAIN written, written[i].more
               PROVE  written[i].reply < produced + 1
    BY <1>1 DEF MoreFits
  <2>1. written[i].reply < produced /\ written[i].reply \in Nat
    BY PieceFacts DEF Inv, MoreFits
  <2> QED
    BY <1>3, <2>1
<1>10. BlockedFits'
  BY <1>1, <1>3, <1>4 DEF Inv, TypeInv, BlockedFits
<1> QED
  BY <1>5, <1>7, <1>8, <1>9, <1>10 DEF Inv

LEMMA SendReplyStep ==
  ASSUME Inv, SendReply
  PROVE  Inv'
<1> DEFINE rep == [reply |-> produced + 1, nwriten |-> 0]
           kept == [rep EXCEPT !.nwriten = Fits(0)]
<1>1. rep \in Reply /\ rep.nwriten = 0
  BY LengthFacts DEF Inv, TypeInv, Reply
<1>2. /\ UNCHANGED <<kind, ts, taken, time_blocked>> /\ kind # "browse"
      /\ produced' = produced + 1
      /\ written' = written \o Units(rep, Fits(0), FALSE)
      /\ \/ Fits(0) = ReplyLen /\ UNCHANGED <<replies, stuck>>
         \/ /\ Fits(0) # ReplyLen
            /\ replies' = Append(replies, kept)
            /\ stuck' = IF replies = <<>> THEN 0 ELSE stuck
  BY DEF SendReply, Answering, append_reply
<1>3. Fits(0) # ReplyLen => kept \in Reply
  <2>1. Fits(0) \in 0..ReplyLen
    BY FitsFacts, LengthFacts DEF Inv
  <2>2. Fits(0) # ReplyLen => Fits(0) \in 0..ReplyLen - 1
    BY <2>1, LengthFacts
  <2>3. kept = [reply |-> produced + 1, nwriten |-> Fits(0)] /\ produced + 1 \in Nat
    BY DEF Inv, TypeInv
  <2> HIDE DEF kept
  <2> QED
    BY <2>2, <2>3 DEF Reply
<1> HIDE DEF rep, kept
<1>4. written' \in Seq(Piece) /\ Len(written') <= taken + Room /\ Len(written) <= Len(written')
  <2>1. /\ written' \in Seq(Piece) /\ Len(written') <= taken + Room
        /\ Len(written') = Len(written) + Fits(0) /\ Fits(0) \in 0..ReplyLen
    <3>1. written' = written \o Units(rep, Fits(rep.nwriten), FALSE)
      BY <1>1, <1>2
    <3>2. /\ written' \in Seq(Piece) /\ Len(written') <= taken + Room
          /\ Len(written') = Len(written) + Fits(rep.nwriten)
          /\ Fits(rep.nwriten) \in 0..ReplyLen - rep.nwriten
      BY <1>1, <3>1, WriteFacts DEF Inv
    <3> QED
      BY <1>1, <3>2, LengthFacts
  <2> QED
    BY <2>1, LengthFacts DEF Inv, TypeInv
<1>5. replies' \in Seq(Reply) /\ (replies # <<>> => replies' # <<>>)
  <2>1. CASE UNCHANGED replies
    BY <2>1 DEF Inv, TypeInv
  <2>2. CASE Fits(0) # ReplyLen /\ replies' = Append(replies, kept)
    BY <1>3, <2>2, AppendProperties DEF Inv, TypeInv
  <2> QED
    BY <1>2, <2>1, <2>2
<1>6. TypeInv'
  <2>1. taken <= Len(written')
    BY <1>4 DEF Inv, TypeInv
  <2>2. stuck' \in Nat /\ produced' \in Nat
    BY <1>2 DEF Inv, TypeInv
  <2> QED
    BY <1>2, <1>4, <1>5, <2>1, <2>2 DEF Inv, TypeInv
<1>7. QueueFits' /\ StreamInOrder' /\ MoreFits'
  BY <1>2 DEF QueueFits, StreamInOrder, MoreFits
<1>8. BlockedFits'
  BY <1>2, <1>5 DEF Inv, BlockedFits
<1> QED
  BY <1>6, <1>7, <1>8 DEF Inv

\* udsserver_idle sends some of the first reply: what is in the stream then is
\* in order, whatever becomes of the reply
LEMMA SendFirst ==
  ASSUME Inv, Idling,
         written' = written \o Units(Head(replies), Fits(Head(replies).nwriten), MoreComing),
         UNCHANGED <<kind, produced>>
  PROVE  StreamInOrder' /\ MoreFits'
<1> DEFINE rep == Head(replies)
           n == Fits(rep.nwriten)
<1>1. /\ TypeInv /\ replies # <<>> /\ ts # "freed"
      /\ Len(replies) \in Nat \ {0} /\ Len(written) \in Nat /\ produced \in Nat
      /\ rep = replies[1] /\ rep \in Reply /\ MoreComing \in BOOLEAN
  BY EmptySeq, ElementOfSeq DEF Inv, TypeInv, Idling, MoreComing
<1>2. written' = written \o Units(rep, n, MoreComing)
  OBVIOUS
<1>3. rep.reply \in Nat /\ rep.nwriten \in 0..ReplyLen - 1
  BY <1>1 DEF Reply
<1> HIDE DEF rep
<1>4. /\ n \in 0..ReplyLen - rep.nwriten
      /\ \A i \in DOMAIN written : i \in DOMAIN written' /\ written'[i] = written[i]
      /\ \A i \in DOMAIN written' :
           \/ i \in DOMAIN written
           \/ /\ i - Len(written) \in 1..n
              /\ written'[i].reply = rep.reply
              /\ written'[i].unit = rep.nwriten + (i - Len(written))
              /\ written'[i].more = MoreComing
  BY <1>1, <1>2, WriteFacts
<1>5. written' \in Seq(Piece)
  BY <1>1, <1>2, WriteFacts
<1>6. DOMAIN written' \subseteq Nat
  BY <1>5
<1> HIDE DEF n
<1> SUFFICES ASSUME kind = "browse", NEW i \in DOMAIN written'
             PROVE  /\ written'[i].unit \in 1..ReplyLen
                    /\ i = ReplyLen * (written'[i].reply - 1) + written'[i].unit
                    /\ written'[i].more => written'[i].reply < produced
  BY DEF StreamInOrder, MoreFits
<1>7. CASE i \in DOMAIN written
  BY <1>4, <1>7 DEF Inv, StreamInOrder, MoreFits
<1>8. CASE i \notin DOMAIN written
  <2>1. /\ i - Len(written) \in 1..n
        /\ written'[i].reply = rep.reply
        /\ written'[i].unit = rep.nwriten + (i - Len(written))
        /\ written'[i].more = MoreComing
    BY <1>4, <1>8
  <2>2. /\ rep.reply = Gone + 1
        /\ Len(written) = ReplyLen * Gone + rep.nwriten
        /\ Gone \in Nat
    BY <1>1 DEF Inv, QueueFits, Gone
  <2>3. written'[i].unit \in 1..ReplyLen
    <3> DEFINE d == i - Len(written)
               w == rep.nwriten
    <3>1. d \in 1..n /\ n \in 0..ReplyLen - w /\ w \in 0..ReplyLen - 1 /\ ReplyLen \in Nat
      BY <1>3, <1>4, <2>1, LengthFacts
    <3>2. written'[i].unit = w + d
      BY <2>1
    <3> HIDE DEF d, w
    <3>3. w + d \in 1..ReplyLen
      BY <3>1
    <3>. QED  BY <3>2, <3>3
  <2>4. i = ReplyLen * (written'[i].reply - 1) + written'[i].unit
    <3>1. i = Len(written) + (i - Len(written)) /\ i \in Nat
      BY <1>1, <1>6
    <3>2. written'[i].reply = Gone + 1 /\ Gone \in Nat
      BY <2>1, <2>2
    <3> DEFINE r == written'[i].reply
               u == written'[i].unit
               len == Len(written)
               w == rep.nwriten
    <3>3. /\ Gone \in Nat /\ w \in Nat /\ len \in Nat /\ i \in Nat
          /\ len = ReplyLen * Gone + w
          /\ r = Gone + 1
          /\ u = w + (i - len)
      BY <1>1, <1>3, <2>1, <2>2, <3>1, <3>2
    <3> HIDE DEF r, u, len, w
    <3>4. i = ReplyLen * (r - 1) + u
      BY <3>3, PlaceFacts
    <3> QED
      BY <3>4 DEF r, u
  <2>5. ASSUME MoreComing
        PROVE  rep.reply < produced
    <3>1. Len(replies) > 1
      BY <2>5 DEF MoreComing
    <3> QED
      BY <1>1, <2>2, <3>1 DEF Gone
  <2> QED
    BY <2>1, <2>3, <2>4, <2>5
<1> QED
  BY <1>7, <1>8

LEMMA IdleSendsStep ==
  ASSUME Inv, IdleSends
  PROVE  Inv'
<1> DEFINE rep == Head(replies)
<1>1. /\ Idling /\ FirstFits
      /\ written' = written \o Units(rep, Fits(rep.nwriten), MoreComing)
      /\ replies' = Tail(replies)
      /\ time_blocked' = NotBlocked
      /\ stuck' = 0
      /\ UNCHANGED <<kind, ts, produced, taken>>
  BY DEF IdleSends
<1>2. /\ replies \in Seq(Reply) /\ replies # <<>> /\ ts # "freed"
      /\ Len(replies) \in Nat \ {0} /\ Len(written) \in Nat /\ produced \in Nat
      /\ rep = replies[1] /\ rep \in Reply /\ MoreComing \in BOOLEAN
      /\ Fits(rep.nwriten) = ReplyLen - rep.nwriten
  BY <1>1, EmptySeq, ElementOfSeq DEF Inv, TypeInv, Idling, MoreComing, FirstFits
<1>3. StreamInOrder' /\ MoreFits'
  BY <1>1, SendFirst
<1> HIDE DEF rep
<1>4. rep.reply \in Nat /\ rep.nwriten \in 0..ReplyLen - 1
  BY <1>2 DEF Reply
<1>5. /\ replies' \in Seq(Reply)
      /\ Len(replies') = Len(replies) - 1
      /\ \A k \in 1..Len(replies) - 1 : replies'[k] = replies[k + 1]
  BY <1>1, <1>2, HeadTailProperties
<1>6. /\ written' \in Seq(Piece)
      /\ Len(written') = Len(written) + Fits(rep.nwriten)
      /\ Len(written') <= taken + Room
      /\ Fits(rep.nwriten) \in 0..ReplyLen - rep.nwriten
  BY <1>1, <1>2, WriteFacts DEF Inv
<1>7. Len(written') >= Len(written)
  BY <1>2, <1>4, <1>6, LengthFacts
<1>8. TypeInv'
  BY <1>1, <1>2, <1>5, <1>6, <1>7 DEF Inv, TypeInv, NotBlocked
<1>9. Gone' = Gone + 1 /\ Gone \in Int
  BY <1>1, <1>2, <1>5 DEF Gone
<1>10. QueueFits'
  <2> SUFFICES ASSUME kind = "browse"
               PROVE  /\ Gone' >= 0
                      /\ \A k \in 1..Len(replies') :
                           /\ replies'[k].reply = Gone' + k
                           /\ k > 1 => replies'[k].nwriten = 0
                      /\ Len(written') = ReplyLen * Gone'
                                       + (IF replies' = <<>> THEN 0 ELSE replies'[1].nwriten)
    BY <1>1 DEF QueueFits
  <2>1. /\ Gone >= 0
        /\ \A k \in 1..Len(replies) :
             /\ replies[k].reply = Gone + k
             /\ k > 1 => replies[k].nwriten = 0
        /\ Len(written) = ReplyLen * Gone + rep.nwriten
    BY <1>2 DEF Inv, QueueFits
  <2>2. ASSUME NEW k \in 1..Len(replies')
        PROVE  replies'[k].reply = Gone' + k /\ replies'[k].nwriten = 0
    <3>1. k + 1 \in 1..Len(replies) /\ k + 1 > 1 /\ replies'[k] = replies[k + 1]
      BY <1>2, <1>5
    <3> QED
      BY <1>9, <2>1, <3>1
  <2>3. (IF replies' = <<>> THEN 0 ELSE replies'[1].nwriten) = 0
    <3>1. CASE replies' # <<>>
      <4>1. 1 \in 1..Len(replies')
        BY <1>5, <3>1, EmptySeq
      <4> QED
        BY <2>2, <4>1
    <3> QED
      BY <3>1
  <2>4. Len(written') = ReplyLen * Gone + ReplyLen
    <3>1. ReplyLen * Gone \in Int
      BY <1>9, LengthFacts
    <3> QED
      BY <1>2, <1>4, <1>6, <2>1, <3>1, LengthFacts
  <2>5. ReplyLen * Gone' = ReplyLen * Gone + ReplyLen
    BY <1>9, OneMore
  <2>6. ReplyLen * Gone + ReplyLen \in Int
    BY <1>9, LengthFacts
  <2>7. Len(written') = ReplyLen * Gone'
                      + (IF replies' = <<>> THEN 0 ELSE replies'[1].nwriten)
    BY <2>3, <2>4, <2>5, <2>6
  <2>8. Gone' >= 0
    BY <1>9, <2>1
  <2> QED
    BY <2>2, <2>7, <2>8
<1>11. BlockedFits'
  BY <1>1 DEF BlockedFits
<1> QED
  BY <1>3, <1>8, <1>10, <1>11 DEF Inv

LEMMA IdleBlockedStep ==
  ASSUME Inv, IdleBlocked
  PROVE  Inv'
<1> DEFINE rep == Head(replies)
           n == Fits(rep.nwriten)
<1>1. /\ Idling /\ ~FirstFits
      /\ written' = written \o Units(rep, n, MoreComing)
      /\ UNCHANGED <<kind, produced, taken>>
      /\ \/ Free
         \/ /\ replies' = [replies EXCEPT ![1].nwriten = @ + n]
            /\ time_blocked' = BlockedSince
            /\ UNCHANGED <<ts, stuck>>
  BY DEF IdleBlocked
<1>2. /\ replies \in Seq(Reply) /\ replies # <<>> /\ ts # "freed"
      /\ Len(replies) \in Nat \ {0} /\ Len(written) \in Nat /\ produced \in Nat
      /\ rep = replies[1] /\ rep \in Reply /\ MoreComing \in BOOLEAN
      /\ n # ReplyLen - rep.nwriten
  BY <1>1, EmptySeq, ElementOfSeq DEF Inv, TypeInv, Idling, MoreComing, FirstFits
<1>3. StreamInOrder' /\ MoreFits'
  BY <1>1, SendFirst
<1> HIDE DEF rep
<1>4. rep.reply \in Nat /\ rep.nwriten \in 0..ReplyLen - 1
  BY <1>2 DEF Reply
<1>6. /\ written' \in Seq(Piece)
      /\ Len(written') = Len(written) + n
      /\ Len(written') <= taken + Room
      /\ n \in 0..ReplyLen - rep.nwriten
  BY <1>1, <1>2, WriteFacts DEF Inv
<1> HIDE DEF n
<1>7. Len(written') >= Len(written)
  BY <1>2, <1>4, <1>6, LengthFacts
<1>8. CASE Free
  <2>1. TypeInv'
    BY <1>1, <1>2, <1>6, <1>7, <1>8 DEF Inv, TypeInv, Free, NotBlocked
  <2>2. QueueFits' /\ BlockedFits'
    BY <1>8 DEF Free, QueueFits, BlockedFits
  <2> QED
    BY <1>3, <2>1, <2>2 DEF Inv
<1>9. CASE /\ replies' = [replies EXCEPT ![1].nwriten = @ + n]
           /\ time_blocked' = BlockedSince
           /\ UNCHANGED <<ts, stuck>>
  <2>1. n + rep.nwriten \in 0..ReplyLen - 1 /\ n \in Nat
    BY <1>2, <1>4, <1>6, LengthFacts
  <2>2. /\ replies' \in Seq(Reply)
        /\ Len(replies') = Len(replies)
        /\ \A k \in 1..Len(replies) : k # 1 => replies'[k] = replies[k]
        /\ replies'[1].reply = rep.reply /\ replies'[1].nwriten = rep.nwriten + n
    <3> DEFINE part == [reply |-> rep.reply, nwriten |-> rep.nwriten + n]
    <3>1. part \in Reply
      BY <1>4, <2>1 DEF Reply
    <3> DEFINE w == rep.nwriten + n
    <3>2. [rep EXCEPT !.nwriten = @ + n] = part
      <4>1. rep \in [reply : Nat, nwriten : 0..ReplyLen - 1]
        BY <1>2 DEF Reply
      <4>2. part = [reply |-> rep.reply, nwriten |-> w]
            /\ [rep EXCEPT !.nwriten = @ + n] = [rep EXCEPT !.nwriten = w]
        OBVIOUS
      <4> HIDE DEF w, part
      <4>. QED  BY <4>1, <4>2
    <3>3. replies' = [replies EXCEPT ![1] = part]
      BY <1>2, <1>9, <3>2
    <3>4. part.reply = rep.reply /\ part.nwriten = rep.nwriten + n
      OBVIOUS
    <3> HIDE DEF part
    <3> QED
      BY <1>2, <3>1, <3>3, <3>4
  <2>3. replies' # <<>>
    BY <1>2, <2>2
  <2>4. TypeInv'
    BY <1>1, <1>2, <1>6, <1>7, <1>9, <2>2 DEF Inv, TypeInv, BlockedSince
  <2>5. Gone' = Gone
    BY <1>1, <2>2 DEF Gone
  <2>6. QueueFits'
    <3> SUFFICES ASSUME kind = "browse"
                 PROVE  /\ Gone >= 0
                        /\ \A k \in 1..Len(replies) :
                             /\ replies'[k].reply = Gone + k
                             /\ k > 1 => replies'[k].nwriten = 0
                        /\ Len(written') = ReplyLen * Gone + replies'[1].nwriten
      BY <1>1, <2>2, <2>3, <2>5 DEF QueueFits
    <3>1. /\ Gone >= 0
          /\ \A k \in 1..Len(replies) :
               /\ replies[k].reply = Gone + k
               /\ k > 1 => replies[k].nwriten = 0
          /\ Len(written) = ReplyLen * Gone + rep.nwriten
      BY <1>2 DEF Inv, QueueFits
    <3>2. ReplyLen * Gone \in Int
      BY <1>2, LengthFacts DEF Gone
    <3>3. Len(written') = ReplyLen * Gone + replies'[1].nwriten
      BY <1>2, <1>4, <1>6, <2>1, <2>2, <3>1, <3>2
    <3> QED
      BY <1>2, <2>2, <3>1, <3>3
  <2>7. BlockedFits'
    BY <1>9, <2>3 DEF Inv, TypeInv, BlockedFits, BlockedSince, NotBlocked
  <2> QED
    BY <1>3, <2>4, <2>6, <2>7 DEF Inv
<1> QED
  BY <1>1, <1>8, <1>9

LEMMA InvStep ==
  ASSUME Inv, [Next]_vars
  PROVE  Inv'
<1>1. CASE Client
  <2>1. /\ UNCHANGED <<kind, ts, replies, produced, written, time_blocked, stuck>>
        /\ taken' \in {taken, taken + 1} /\ taken' <= Len(written)
    <3>1. CASE ClientReads
      BY <3>1 DEF ClientReads, timeVars, Inv, TypeInv
    <3>2. CASE ClientSends \/ CallReturns \/ ClientCallsAgain \/ ClientGoes
      BY <3>2 DEF ClientSends, CallReturns, ClientCallsAgain, ClientGoes, streamVars,
         timeVars, Inv, TypeInv
    <3> QED
      BY <1>1, <3>1, <3>2 DEF Client
  <2> QED
    BY <2>1, FrameStep DEF Inv, TypeInv
<1>2. CASE ReadRequest
  <2>1. CASE UNCHANGED <<kind, ts, streamVars, timeVars>>
    BY <2>1, FrameStep DEF streamVars, timeVars, Inv, TypeInv
  <2>2. CASE Free /\ UNCHANGED <<kind, produced, written, taken>>
    BY <2>2, FreeStep DEF Inv, TypeInv
  <2>3. CASE AfterHandling /\ UNCHANGED <<kind, streamVars, timeVars>>
    <3>1. ts # "freed" /\ ts' \in {"morecoming", "complete"}
      BY <1>2, <2>3 DEF ReadRequest, AfterHandling
    <3> QED
      BY <2>3, <3>1, FrameStep DEF streamVars, timeVars, Inv, TypeInv
  <2> QED
    BY <1>2, <2>1, <2>2, <2>3 DEF ReadRequest, Handle
<1>3. CASE ReadCompleted \/ ReadClosed
  BY <1>3, FreeStep DEF ReadCompleted, ReadClosed, Inv, TypeInv
<1>4. CASE QueueReply
  BY <1>4, QueueReplyStep
<1>5. CASE SendReply
  BY <1>5, SendReplyStep
<1>6. CASE SendReplyGone
  BY <1>6, FreeStep DEF SendReplyGone, Answering
<1>7. CASE IdleSends
  BY <1>7, IdleSendsStep
<1>8. CASE IdleBlocked
  BY <1>8, IdleBlockedStep
<1>9. CASE IdleGone
  BY <1>9, FreeStep DEF IdleGone, Inv, TypeInv
<1>10. CASE Tick
  <2>1. /\ UNCHANGED <<kind, ts, replies, produced, written, taken>>
        /\ stuck' = stuck + 1
        /\ time_blocked' = IF time_blocked \in 0..MaxTimeBlocked - 1 THEN time_blocked + 1
                           ELSE time_blocked
    BY <1>10 DEF Tick, streamVars
  <2>2. /\ time_blocked' \in {time_blocked, time_blocked + 1}
        /\ time_blocked = NotBlocked => time_blocked' = NotBlocked
    BY <2>1, LengthFacts DEF NotBlocked
  <2> QED
    BY <2>1, <2>2, FrameStep DEF Inv, TypeInv
<1>11. CASE UNCHANGED vars
  BY <1>11, FrameStep DEF vars, streamVars, timeVars, Inv, TypeInv
<1> QED
  BY <1>1, <1>2, <1>3, <1>4, <1>5, <1>6, <1>7, <1>8, <1>9, <1>10, <1>11
  DEF Next, Callback, Engine, Idle

LEMMA InvInit ==
  ASSUME Init
  PROVE  Inv
<1>1. TypeInv
  BY LengthFacts DEF Init, TypeInv, NotBlocked
<1>2. QueueFits
  BY LengthFacts DEF Init, QueueFits, Gone
<1>3. StreamInOrder /\ MoreFits /\ BlockedFits
  BY DEF Init, StreamInOrder, MoreFits, BlockedFits
<1> QED
  BY <1>1, <1>2, <1>3 DEF Inv

LEMMA InvHolds == Spec => []Inv
<1>1. Init => Inv
  BY InvInit
<1>2. Inv /\ [Next]_vars => Inv'
  BY InvStep
<1> QED
  BY <1>1, <1>2, PTL DEF Spec

--------------------------------------------------------------------------------
(* Theorems *)

\* What a client that browses reads is its replies, one whole reply after the other,
\* in the order in which the engine gave them, however little of them its buffer
\* takes at a time and whenever it reads (append_reply, udsserver_idle, send_msg).
THEOREM RepliesInOrder == Spec => []StreamInOrder
<1>1. Inv => StreamInOrder
  BY DEF Inv
<1> QED
  BY <1>1, InvHolds, PTL

\* When nothing is queued any more, the last reply has told the client that no more
\* comes: the flag of udsserver_idle (433-434) is never left hanging.
THEOREM BurstsEnd == Spec => []BurstEnds
<1>1. ASSUME Inv
      PROVE  BurstEnds
  <2> SUFFICES ASSUME kind = "browse", ts # "freed", replies = <<>>, written # <<>>
               PROVE  ~written[ReplyLen * (produced - 1) + 1].more
    BY DEF BurstEnds
  <2> DEFINE i == ReplyLen * (produced - 1) + 1
  <2>1. Len(replies) = 0 /\ Gone = produced
    BY <1>1, EmptySeq DEF Gone, Inv, TypeInv
  <2>2. Len(written) = ReplyLen * produced /\ produced \in Nat
    <3>1. Len(written) = ReplyLen * Gone + 0 /\ produced \in Nat
      BY <1>1 DEF Inv, TypeInv, QueueFits
    <3>2. ReplyLen * Gone \in Nat
      BY <2>1, <3>1, LengthFacts
    <3> QED
      BY <2>1, <3>1, <3>2
  <2>3. written \in Seq(Piece) /\ Len(written) \in Nat \ {0}
    BY <1>1, EmptySeq DEF Inv, TypeInv
  <2>4. produced # 0
    BY <2>2, <2>3, LengthFacts
  <2>5. ReplyLen * produced = ReplyLen * (produced - 1) + ReplyLen /\ produced - 1 \in Nat
    BY <2>2, <2>4, OneMore
  <2>6. ReplyLen * (produced - 1) \in Nat
    BY <2>5, LengthFacts
  <2>7. i \in DOMAIN written
    BY <2>2, <2>3, <2>5, <2>6, LengthFacts
  <2>8. written[i].reply \in Nat /\ written[i].unit \in 1..ReplyLen
    BY <1>1, <2>7, PieceFacts DEF Inv
  <2>9. i = ReplyLen * (written[i].reply - 1) + written[i].unit
    BY <1>1, <2>7 DEF Inv, StreamInOrder
  <2>10. written[i].reply >= produced
    <3> DEFINE r == written[i].reply
               u == written[i].unit
    <3>1. r \in Nat /\ u \in 1..ReplyLen /\ ReplyLen * (produced - 1) + 1 = ReplyLen * (r - 1) + u
      BY <2>8, <2>9
    <3> HIDE DEF r, u
    <3>2. r - 1 >= produced - 1
      BY <2>5, <3>1, NotBehind
    <3> QED
      BY <2>2, <3>1, <3>2 DEF r
  <2> HIDE DEF i
  <2> QED
    BY <1>1, <2>2, <2>7, <2>8, <2>10 DEF Inv, MoreFits, i
<1> QED
  BY <1>1, InvHolds, PTL

\* udsserver_idle cuts off a client only if no reply has got through to it for
\* MAX_TIME_BLOCKED: one that reads slowly is spared (441, 453-460).
THEOREM CutOffOnlyIfStuck == Spec => AbortedOnlyIfStuck
<1>1. ASSUME Inv, IdleBlocked, ts' = "freed"
      PROVE  stuck >= MaxTimeBlocked
  <2>1. ts # "freed"
    BY <1>1 DEF IdleBlocked, Idling
  <2>2. BlockedSince >= MaxTimeBlocked
    BY <1>1, <2>1 DEF IdleBlocked
  <2>3. time_blocked # NotBlocked /\ time_blocked >= MaxTimeBlocked
    BY <2>2, LengthFacts DEF BlockedSince
  <2> QED
    BY <1>1, <2>3, LengthFacts DEF Inv, TypeInv, BlockedFits
<1>2. Inv /\ [Next]_vars => [IdleBlocked /\ ts' = "freed" => stuck >= MaxTimeBlocked]_vars
  BY <1>1
<1> QED
  BY <1>2, InvHolds, PTL DEF Spec, AbortedOnlyIfStuck
================================================================================
