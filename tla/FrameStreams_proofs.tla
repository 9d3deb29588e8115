------------------------ MODULE FrameStreams_proofs -------------------------
(* FrameStreams for any number of frames, of units in a frame and in the   *)
(* buffer, and whatever units begin like a header. The parser's loop is    *)
(* one step per iteration, so that an invariant of its steps says what it  *)
(* finds in a buffer.                                                      *)
EXTENDS MCGateway, FiniteSetTheorems, TLAPS

(* The units in the buffer and, after them, the next on the wire.          *)
Places == 1..(Len(buffer) + 1)
Line(k) == IF k <= Len(buffer) THEN buffer[k] ELSE next

(* A frame that lost nothing is followed by the rest of itself, and on TCP *)
(* no two units of a frame are further apart than they were sent.          *)
Unbroken ==
  \A j, k \in Places :
    /\ j <= k /\ Line(j).frame \notin damaged /\ Line(j).unit > 0
    /\ k - j <= Size - Line(j).unit
    => /\ Line(k).frame = Line(j).frame
       /\ Line(k).unit = Line(j).unit + (k - j)
Together ==
  ~S!Checked =>
    /\ \A j, k \in Places :
         j < k /\ Line(j).frame = Line(k).frame =>
           Line(k).unit = Line(j).unit + (k - j)
    /\ \A j \in Places : Line(j).unit > 0
    /\ \A f \in damaged : f < next.frame
Rising == \A j \in Places : Line(j).frame <= next.frame
LineInv == Unbroken /\ Together /\ Rising

(* A reader that waits for units has nothing left that could be a frame.   *)
WaitInv ==
  /\ ~link => phase = "waiting" /\ next.unit = 1
  /\ next.frame > Count => next.unit = 1
  /\ phase = "waiting" /\ ~fooled => Len(buffer) < Size

(* The frames that are begun, undamaged, and neither found nor still to be *)
(* found, and the damaged ones with units in the buffer. A candidate that  *)
(* is garbled begins with one of the latter and hides one of the former.   *)
Begun == {f \in S!Frames : f < next.frame \/ (f = next.frame /\ next.unit > 1)}
Heads == {f \in S!Frames :
            \E i \in 1..Len(buffer) :
              buffer[i].frame = f /\ buffer[i].unit = 1}
Missing == Begun \ (damaged \cup delivered \cup Heads)
Cuts ==
  {f \in damaged : /\ ~S!Checked /\ (reader = "ntrip" => link)
                   /\ \E i \in 1..Len(buffer) : buffer[i].frame = f}
CountInv ==
  ~fooled => /\ garbled + Cardinality(Cuts) <= S!Allowed
             /\ Cardinality(Missing) <= garbled

StreamInv == S!TypeOK /\ LineInv /\ WaitInv /\ CountInv

-----------------------------------------------------------------------------
(* Sets of frames and their sizes.                                         *)
LEMMA FewFrames ==
  ASSUME S!StreamConstants, NEW A \in SUBSET S!Frames
  PROVE  IsFiniteSet(A) /\ Cardinality(A) \in Nat
<1>1. IsFiniteSet(S!Frames)
  BY FS_Interval DEF S!Frames, S!StreamConstants
<1>2. IsFiniteSet(A)
  BY <1>1, FS_Subset
<1> QED
  BY <1>2, FS_CardinalityType

LEMMA FewerFrames ==
  ASSUME S!StreamConstants, NEW A \in SUBSET S!Frames, NEW B \in SUBSET A
  PROVE  /\ Cardinality(B) <= Cardinality(A)
         /\ \A f \in A \ B : Cardinality(B) + 1 <= Cardinality(A)
<1>1. IsFiniteSet(A) /\ Cardinality(A) \in Nat
  BY FewFrames
<1>2. Cardinality(B) \in Nat /\ Cardinality(B) <= Cardinality(A)
      /\ (Cardinality(A) = Cardinality(B) => A = B)
  <2>1. B \in SUBSET S!Frames
    OBVIOUS
  <2>2. Cardinality(B) \in Nat
    BY <2>1, FewFrames
  <2> QED
    BY <1>1, <2>2, FS_Subset
<1>3. ASSUME NEW f \in A \ B
      PROVE  Cardinality(B) + 1 <= Cardinality(A)
  <2>1. A # B
    BY <1>3
  <2> QED
    BY <1>1, <1>2, <2>1
<1> QED
  BY <1>2, <1>3

LEMMA OneMoreFrame ==
  ASSUME S!StreamConstants, NEW A \in SUBSET S!Frames, NEW f,
         NEW B \in SUBSET (A \cup {f})
  PROVE  Cardinality(B) <= Cardinality(A) + 1
<1>1. IsFiniteSet(A) /\ Cardinality(A) \in Nat
  BY FewFrames
<1>2. /\ IsFiniteSet(A \cup {f})
      /\ Cardinality(A \cup {f}) \in {Cardinality(A), Cardinality(A) + 1}
  BY <1>1, FS_AddElement
<1>3. IsFiniteSet(B) /\ Cardinality(B) <= Cardinality(A \cup {f})
  BY <1>2, FS_Subset
<1>4. Cardinality(B) \in Nat
  BY <1>3, FS_CardinalityType
<1> QED
  BY <1>1, <1>2, <1>3, <1>4

-----------------------------------------------------------------------------
(* How the line changes: at its end, or at its front.                      *)
LEMMA LineTypes ==
  ASSUME S!StreamConstants, S!TypeOK
  PROVE  /\ Len(buffer) \in Nat
         /\ \A i \in 1..Len(buffer) : /\ buffer[i].frame \in S!Frames
                                      /\ buffer[i].unit \in 0..Size
         /\ \A k \in Places : /\ Line(k).frame \in 1..(Count + 1)
                              /\ Line(k).unit \in 0..Size
<1> DEFINE U == [frame : S!Frames, unit : 0..Size]
<1>1. Len(buffer) \in Nat /\ \A i \in 1..Len(buffer) : buffer[i] \in U
  <2>1. buffer \in Seq(U)
    BY DEF S!TypeOK
  <2> HIDE DEF U
  <2> QED
    BY <2>1
<1>2. /\ next.frame \in 1..(Count + 1) /\ next.unit \in 0..Size
      /\ \A f \in S!Frames : f \in 1..(Count + 1)
  BY DEF S!TypeOK, S!Frames, S!StreamConstants
<1>3. \A i \in 1..Len(buffer) : /\ buffer[i].frame \in S!Frames
                                /\ buffer[i].unit \in 0..Size
  BY <1>1
<1>4. ASSUME NEW k \in Places
      PROVE  Line(k).frame \in 1..(Count + 1) /\ Line(k).unit \in 0..Size
  BY <1>1, <1>2, <1>3 DEF Places, Line
<1> QED
  BY <1>1, <1>3, <1>4

LEMMA DropTypes ==
  ASSUME S!StreamConstants, S!TypeOK, NEW n \in 0..Len(buffer), S!Drops(n)
  PROVE  /\ buffer' \in Seq([frame : S!Frames, unit : 0..Size])
         /\ Len(buffer') = Len(buffer) - n
         /\ \A i \in 1..Len(buffer') : buffer'[i] = buffer[i + n]
<1> DEFINE U == [frame : S!Frames, unit : 0..Size]
<1>1. buffer \in Seq(U) /\ Len(buffer) \in Nat
  BY DEF S!TypeOK
<1>2. buffer' = SubSeq(buffer, n + 1, Len(buffer))
  BY DEF S!Drops
<1> HIDE DEF U
<1>3. /\ buffer' \in Seq(U)
      /\ Len(buffer') = Len(buffer) - n
      /\ \A i \in 1..Len(buffer') : buffer'[i] = buffer[i + n]
  BY <1>1, <1>2
<1> QED
  BY <1>3 DEF U

LEMMA LineDrops ==
  ASSUME S!StreamConstants, S!TypeOK, LineInv,
         NEW n \in 0..Len(buffer), S!Drops(n)
  PROVE  LineInv'
<1>1. /\ Len(buffer) \in Nat /\ Len(buffer') = Len(buffer) - n
      /\ next' = next /\ damaged' = damaged /\ reader' = reader
  BY DropTypes, LineTypes DEF S!Drops
<1>2. \A k \in Places' : k + n \in Places /\ (Line(k))' = Line(k + n)
  BY <1>1, DropTypes DEF Places, Line
<1>3. \A k \in Places' : k \in Int
  BY <1>1 DEF Places
<1>4. Rising'
  BY <1>1, <1>2 DEF Rising, LineInv
<1>5. Unbroken'
  <2> SUFFICES ASSUME NEW j \in Places', NEW k \in Places',
                      j <= k, Line(j)'.frame \notin damaged,
                      Line(j)'.unit > 0, k - j <= Size - Line(j)'.unit
               PROVE  /\ Line(k)'.frame = Line(j)'.frame
                      /\ Line(k)'.unit = Line(j)'.unit + (k - j)
    BY <1>1 DEF Unbroken
  <2>1. j + n \in Places /\ k + n \in Places /\ j + n <= k + n
        /\ (k + n) - (j + n) = k - j
    BY <1>2, <1>3
  <2> QED
    BY <1>2, <2>1 DEF Unbroken, LineInv
<1>6. Together'
  <2> SUFFICES ASSUME ~S!Checked
               PROVE  Together'
    BY <1>1 DEF Together, S!Checked
  <2>1. ASSUME NEW j \in Places', NEW k \in Places',
               j < k, Line(j)'.frame = Line(k)'.frame
        PROVE  Line(k)'.unit = Line(j)'.unit + (k - j)
    <3>1. j + n \in Places /\ k + n \in Places /\ j + n < k + n
          /\ (k + n) - (j + n) = k - j
      BY <1>2, <1>3, <2>1
    <3> QED
      BY <1>2, <2>1, <3>1 DEF Together, LineInv
  <2>2. \A j \in Places' : Line(j)'.unit > 0
    BY <1>2 DEF Together, LineInv
  <2>3. \A f \in damaged' : f < next'.frame
    BY <1>1 DEF Together, LineInv
  <2> QED
    BY <2>1, <2>2, <2>3 DEF Together
<1> QED
  BY <1>4, <1>5, <1>6 DEF LineInv

LEMMA LineArrives ==
  ASSUME S!StreamConstants, S!TypeOK, LineInv, S!Arrives
  PROVE  LineInv'
<1> DEFINE isGood == buffer' = Append(buffer, next) /\ damaged' = damaged
<1>0. PICK n \in Nat : n = Len(buffer)
  BY LineTypes
<1>1. /\ n \in Nat /\ Len(buffer) = n /\ Len(buffer') = n + 1
      /\ \A i \in 1..n : buffer'[i] = buffer[i]
      /\ buffer'[n + 1].frame = next.frame
      /\ isGood => buffer'[n + 1] = next /\ damaged' = damaged
      /\ ~isGood => /\ S!Checked /\ damaged' = damaged \cup {next.frame}
                   /\ buffer'[n + 1].unit = 0
  <2>1. /\ buffer \in Seq([frame : S!Frames, unit : 0..Size])
        /\ next.frame \in 1..(Count + 1) /\ next.unit \in 1..Size
        /\ next = [frame |-> next.frame, unit |-> next.unit]
    BY DEF S!TypeOK
  <2>2. CASE isGood
    BY <1>0, <2>1, <2>2
  <2>3. CASE ~isGood
    <3>1. /\ buffer' = Append(buffer, [next EXCEPT !.unit = 0])
          /\ damaged' = damaged \cup {next.frame} /\ S!Checked
      BY <2>3 DEF S!Arrives
    <3> HIDE DEF isGood
    <3> QED
      BY <1>0, <2>1, <2>3, <3>1
  <2> QED
    BY <2>2, <2>3
<1>2. /\ next' = S!After(next) /\ reader' = reader
      /\ next.frame \in 1..(Count + 1) /\ next.unit \in 1..Size
      /\ Size \in Nat /\ Count \in Nat
  BY DEF S!Arrives, S!Sends, S!TypeOK, S!StreamConstants
<1>3. /\ Line(n + 1) = next /\ Line(n + 1)' = buffer'[n + 1]
      /\ Line(n + 2)' = next'
      /\ \A k \in 1..n : Line(k)' = Line(k)
  BY <1>1 DEF Line
<1>4. Places = 1..(n + 1) /\ Places' = 1..(n + 2)
  BY <1>1 DEF Places
<1>5. \/ /\ next'.frame = next.frame /\ next'.unit = next.unit + 1
         /\ next.unit < Size
      \/ next'.frame = next.frame + 1 /\ next'.unit = 1 /\ next.unit = Size
  BY <1>2 DEF S!After, S!TypeOK
<1>6. \A k \in 1..n : Line(k).frame \in Int /\ Line(k).unit \in Int
  BY <1>4, LineTypes
<1> HIDE DEF isGood
<1>7. Rising'
  <2> SUFFICES ASSUME NEW k \in 1..(n + 2)
               PROVE  Line(k)'.frame <= next'.frame
    BY <1>4 DEF Rising
  <2>1. CASE k \in 1..n
    <3>1. Line(k).frame <= next.frame
      BY <1>1, <1>4, <2>1 DEF Rising, LineInv
    <3> QED
      BY <1>2, <1>3, <1>5, <1>6, <2>1, <3>1
  <2>2. CASE k = n + 1
    BY <1>1, <1>2, <1>3, <1>5, <2>2
  <2>3. CASE k = n + 2
    BY <1>2, <1>3, <1>5, <2>3
  <2> QED
    BY <1>1, <2>1, <2>2, <2>3
<1>8. Unbroken'
  <2> SUFFICES ASSUME NEW j \in 1..(n + 2), NEW k \in 1..(n + 2),
                      j <= k, Line(j)'.frame \notin damaged',
                      Line(j)'.unit > 0, k - j <= Size - Line(j)'.unit
               PROVE  /\ Line(k)'.frame = Line(j)'.frame
                      /\ Line(k)'.unit = Line(j)'.unit + (k - j)
    BY <1>4 DEF Unbroken
  <2>1. Line(j)'.unit \in Int
    <3>1. CASE j \in 1..n
      BY <1>3, <1>6, <3>1
    <3>2. CASE j = n + 1
      BY <1>1, <1>2, <1>3, <3>2
    <3>3. CASE j = n + 2
      BY <1>2, <1>3, <1>5, <3>3
    <3> QED
      BY <1>1, <3>1, <3>2, <3>3
  <2>2. CASE j = k
    BY <2>1, <2>2
  <2>3. CASE j <= n /\ k <= n
    <3>1. j \in 1..n /\ k \in 1..n /\ j \in Places /\ k \in Places
      BY <1>1, <1>4, <2>3
    <3>2. Line(j).frame \notin damaged
      BY <1>1, <1>3, <3>1
    <3> QED
      BY <1>3, <3>1, <3>2 DEF Unbroken, LineInv
  <2>4. CASE j <= n /\ k > n
    <3>1. j \in 1..n /\ j \in Places /\ n + 1 \in Places
      BY <1>1, <1>4, <2>4
    <3>2. Line(j)' = Line(j) /\ Line(j).frame \notin damaged
      BY <1>1, <1>3, <3>1
    <3>3. (n + 1) - j <= Size - Line(j).unit
      BY <1>1, <1>2, <1>6, <2>4, <3>1, <3>2
    <3>4. /\ next.frame = Line(j).frame
          /\ next.unit = Line(j).unit + ((n + 1) - j)
      BY <1>1, <1>3, <2>4, <3>1, <3>2, <3>3 DEF Unbroken, LineInv
    <3>5. isGood
      BY <1>1, <3>2, <3>4
    <3>6. CASE k = n + 1
      BY <1>1, <1>3, <3>2, <3>4, <3>5, <3>6
    <3>7. CASE k = n + 2
      <4>1. next.unit < Size
        <5>1. (n + 2) - j <= Size - Line(j).unit
          BY <3>2, <3>7
        <5>2. Line(j).unit \in Int /\ j \in Int /\ Size \in Int
          BY <1>2, <1>6, <3>1
        <5> QED
          BY <3>4, <5>1, <5>2
      <4>2. /\ next'.frame = Line(j).frame
            /\ next'.unit = Line(j).unit + ((n + 1) - j) + 1
        <5>1. next'.frame = next.frame /\ next'.unit = next.unit + 1
          BY <1>2, <1>5, <4>1
        <5> QED
          BY <3>4, <5>1
      <4>3. Line(k)' = next' /\ k = n + 2
        BY <1>3, <3>7
      <4> QED
        BY <1>6, <3>1, <3>2, <4>2, <4>3
    <3> QED
      BY <1>1, <2>4, <3>6, <3>7
  <2>5. CASE j = n + 1 /\ k = n + 2
    <3>1. isGood
      BY <1>1, <1>3, <2>5
    <3>2. Line(j)' = next /\ Line(k)' = next' /\ k - j = 1
      BY <1>1, <1>3, <2>5, <3>1
    <3>3. next.unit < Size
      BY <1>2, <3>2
    <3>4. next'.frame = next.frame /\ next'.unit = next.unit + 1
      BY <1>2, <1>5, <3>3
    <3> QED
      BY <3>2, <3>4
  <2> QED
    BY <1>1, <2>2, <2>3, <2>4, <2>5
<1>9. Together'
  <2> SUFFICES ASSUME ~S!Checked
               PROVE  Together'
    BY <1>2 DEF Together, S!Checked
  <2>1. isGood
    BY <1>1
  <2>2. ASSUME NEW j \in 1..(n + 2), NEW k \in 1..(n + 2),
               j < k, Line(j)'.frame = Line(k)'.frame
        PROVE  Line(k)'.unit = Line(j)'.unit + (k - j)
    <3>1. CASE k <= n + 1
      <4>1. j \in Places /\ k \in Places
        BY <1>1, <1>4, <2>2, <3>1
      <4>2. Line(j)' = Line(j) /\ Line(k)' = Line(k)
        BY <1>1, <1>3, <2>1, <2>2, <3>1
      <4> QED
        BY <2>2, <4>1, <4>2 DEF Together, LineInv
    <3>2. CASE k = n + 2
      <4>1. j \in Places /\ n + 1 \in Places
        BY <1>1, <1>4, <2>2, <3>2
      <4>2. Line(j)' = Line(j)
        BY <1>1, <1>3, <2>1, <2>2, <3>2
      <4>3. Line(j).frame <= next.frame
        BY <4>1 DEF Rising, LineInv
      <4>4. next.frame = Line(j).frame
        BY <1>2, <1>3, <1>5, <2>2, <3>2, <4>1, <4>2, <4>3, LineTypes
      <4>5. next'.unit = next.unit + 1
        BY <1>2, <1>3, <1>5, <2>2, <3>2, <4>2, <4>4
      <4>6. CASE j = n + 1
        BY <1>1, <1>2, <1>3, <3>2, <4>2, <4>5, <4>6
      <4>7. CASE j # n + 1
        <5>1. j < n + 1
          BY <1>1, <2>2, <3>2, <4>7
        <5>2. next.unit = Line(j).unit + ((n + 1) - j)
          BY <1>3, <4>1, <4>4, <5>1 DEF Together, LineInv
        <5> QED
          BY <1>1, <1>2, <1>3, <3>2, <4>1, <4>2, <4>5, <5>2, LineTypes
      <4> QED
        BY <4>6, <4>7
    <3> QED
      BY <1>1, <3>1, <3>2
  <2>3. ASSUME NEW k \in 1..(n + 2)
        PROVE  Line(k)'.unit > 0
    <3>1. CASE k <= n
      <4>1. k \in 1..n /\ k \in Places
        BY <1>1, <1>4, <3>1
      <4> QED
        BY <1>3, <4>1 DEF Together, LineInv
    <3>2. CASE k > n
      BY <1>1, <1>2, <1>3, <1>5, <2>1, <3>2
    <3> QED
      BY <1>1, <3>1, <3>2
  <2>4. ASSUME NEW f \in damaged'
        PROVE  f < next'.frame
    <3>1. f \in damaged /\ f < next.frame
      BY <1>1, <2>1, <2>4 DEF Together, LineInv
    <3>2. f \in Int
      BY <3>1 DEF S!TypeOK, S!Frames
    <3> QED
      BY <1>2, <1>5, <3>1, <3>2
  <2> QED
    BY <1>4, <2>2, <2>3, <2>4 DEF Together
<1> QED
  BY <1>7, <1>8, <1>9 DEF LineInv

(* The next unit is lost, or its frame is cut by a break.                  *)
LEMMA LineCut ==
  ASSUME S!StreamConstants, S!TypeOK, LineInv,
         buffer' = buffer, reader' = reader,
         damaged' = damaged \cup {next.frame},
         next'.frame \in Int, next'.unit \in Int, next'.unit > 0,
         next'.frame >= next.frame, ~S!Checked => next'.frame > next.frame
  PROVE  LineInv'
<1>0. PICK n \in Nat : n = Len(buffer)
  BY LineTypes
<1>1. /\ n \in Nat /\ Len(buffer) = n /\ Len(buffer') = n
      /\ Places = 1..(n + 1) /\ Places' = 1..(n + 1)
  BY <1>0 DEF Places
<1>2. /\ Line(n + 1) = next /\ Line(n + 1)' = next'
      /\ \A k \in 1..n : Line(k)' = Line(k)
  BY <1>1 DEF Line
<1>3. /\ Size \in Nat /\ next.frame \in Int /\ next.unit \in Int
      /\ \A k \in 1..n : Line(k).frame \in Int /\ Line(k).unit \in Int
  <2>1. Size \in Nat /\ next.frame \in Int /\ next.unit \in Int
    BY DEF S!TypeOK, S!StreamConstants
  <2>2. \A k \in 1..n : Line(k).frame \in Int /\ Line(k).unit \in Int
    BY <1>1, LineTypes
  <2> QED
    BY <2>1, <2>2
<1>4. \A k \in 1..(n + 1) : Line(k)'.frame <= next'.frame
  <2>1. ASSUME NEW k \in 1..n
        PROVE  Line(k)'.frame <= next'.frame
    <3>1. Line(k).frame <= next.frame
      BY <1>1 DEF Rising, LineInv
    <3> QED
      BY <1>2, <1>3, <3>1
  <2> QED
    BY <1>1, <1>2, <2>1
<1>5. Unbroken'
  <2> SUFFICES ASSUME NEW j \in 1..(n + 1), NEW k \in 1..(n + 1),
                      j <= k, Line(j)'.frame \notin damaged',
                      Line(j)'.unit > 0, k - j <= Size - Line(j)'.unit
               PROVE  /\ Line(k)'.frame = Line(j)'.frame
                      /\ Line(k)'.unit = Line(j)'.unit + (k - j)
    BY <1>1 DEF Unbroken
  <2>1. CASE j = k
    BY <1>1, <1>2, <1>3, <2>1
  <2>2. CASE k <= n
    <3>1. j \in 1..n /\ k \in 1..n /\ j \in Places /\ k \in Places
      BY <1>1, <2>2
    <3> QED
      BY <1>2, <3>1 DEF Unbroken, LineInv
  <2>3. CASE j <= n /\ k = n + 1
    <3>1. j \in 1..n /\ j \in Places /\ k \in Places
      BY <1>1, <2>3
    <3>2. next.frame = Line(j).frame
      BY <1>2, <2>3, <3>1 DEF Unbroken, LineInv
    <3> QED
      BY <1>2, <3>1, <3>2
  <2> QED
    BY <1>1, <2>1, <2>2, <2>3
<1>6. Together'
  <2> SUFFICES ASSUME ~S!Checked
               PROVE  Together'
    BY DEF Together, S!Checked
  <2>1. ASSUME NEW j \in 1..(n + 1), NEW k \in 1..(n + 1),
               j < k, Line(j)'.frame = Line(k)'.frame
        PROVE  Line(k)'.unit = Line(j)'.unit + (k - j)
    <3>1. j \in 1..n /\ j \in Places /\ Line(j)' = Line(j)
      BY <1>1, <1>2, <2>1
    <3>2. Line(j).frame <= next.frame
      BY <3>1 DEF Rising, LineInv
    <3>3. k # n + 1
      BY <1>2, <1>3, <2>1, <3>1, <3>2
    <3>4. k \in 1..n /\ k \in Places /\ Line(k)' = Line(k)
      BY <1>1, <1>2, <3>3
    <3> QED
      BY <2>1, <3>1, <3>4 DEF Together, LineInv
  <2>2. ASSUME NEW k \in 1..(n + 1)
        PROVE  Line(k)'.unit > 0
    <3>1. CASE k \in 1..n
      BY <1>1, <1>2, <3>1 DEF Together, LineInv
    <3>2. CASE k = n + 1
      BY <1>2, <3>2
    <3> QED
      BY <1>1, <3>1, <3>2
  <2>3. ASSUME NEW f \in damaged'
        PROVE  f < next'.frame
    <3>1. CASE f \in damaged
      <4>1. f < next.frame /\ f \in Int
        BY <3>1 DEF Together, LineInv, S!TypeOK, S!Frames
      <4> QED
        BY <1>3, <4>1
    <3> QED
      BY <2>3, <3>1
  <2> QED
    BY <1>1, <2>1, <2>2, <2>3 DEF Together
<1> QED
  BY <1>1, <1>4, <1>5, <1>6 DEF LineInv, Rising

-----------------------------------------------------------------------------
(* What the parser looks at. A frame that lost nothing, and is at the      *)
(* front, is a whole candidate.                                            *)
LEMMA CandidateFacts ==
  ASSUME S!StreamConstants, S!TypeOK, S!AtHeader
  PROVE  /\ Len(buffer) \in Nat \ {0}
         /\ S!Length(buffer[1]) \in Nat \ {0}
         /\ S!Checked => S!Length(buffer[1]) = Size /\ S!IsComplete
         /\ ~S!FooledHere => S!Length(buffer[1]) = Size
         /\ S!IsComplete =>
              /\ S!Length(buffer[1]) \in 1..Len(buffer)
              /\ S!Candidate[1] = buffer[1]
              /\ S!IsWhole(S!Candidate) =>
                   /\ S!Length(buffer[1]) = Size
                   /\ \A i \in 1..Size :
                        /\ buffer[i].frame = buffer[1].frame
                        /\ buffer[i].unit = i
              /\ /\ S!Length(buffer[1]) = Size
                 /\ \A i \in 1..Size :
                      /\ buffer[i].frame = buffer[1].frame
                      /\ buffer[i].unit = i
                 => S!IsWhole(S!Candidate)
<1> DEFINE U == [frame : S!Frames, unit : 0..Size]
           n == S!Length(buffer[1])
<1>1. buffer \in Seq(U) /\ Len(buffer) \in Nat
  BY DEF S!TypeOK
<1>2. Len(buffer) > 0
  BY <1>1 DEF S!AtHeader, S!Enough, S!StreamConstants
<1>3. /\ n \in Nat \ {0} /\ (S!Checked => n = Size)
      /\ ~S!FooledHere => n = Size
  BY DEF S!Length, S!FooledHere, S!StreamConstants
<1>4. S!Checked => S!IsComplete
  BY <1>3 DEF S!AtHeader, S!Enough, S!IsComplete
<1>5. ASSUME S!IsComplete
      PROVE  /\ n \in 1..Len(buffer) /\ S!Candidate[1] = buffer[1]
             /\ Len(S!Candidate) = n
             /\ \A i \in 1..n : S!Candidate[i] = buffer[i] /\ buffer[i] \in U
  <2>1. n \in 1..Len(buffer)
    BY <1>1, <1>3, <1>5 DEF S!IsComplete
  <2> HIDE DEF n, U
  <2>2. S!Candidate = SubSeq(buffer, 1, n)
    BY DEF S!Candidate, n
  <2> QED
    BY <1>1, <1>3, <2>1, <2>2
<1>6. ASSUME S!IsComplete, S!IsWhole(S!Candidate)
      PROVE  /\ n = Size
             /\ \A i \in 1..Size : /\ buffer[i].frame = buffer[1].frame
                                   /\ buffer[i].unit = i
  BY <1>5, <1>6 DEF S!IsWhole
<1>7. ASSUME S!IsComplete, n = Size,
             \A i \in 1..Size : /\ buffer[i].frame = buffer[1].frame
                               /\ buffer[i].unit = i
      PROVE  S!IsWhole(S!Candidate)
  BY <1>5, <1>7 DEF S!IsWhole
<1> HIDE DEF n
<1> QED
  BY <1>1, <1>2, <1>3, <1>4, <1>5, <1>6, <1>7 DEF n

LEMMA UndamagedIsWhole ==
  ASSUME S!StreamConstants, S!TypeOK, LineInv, Len(buffer) >= Size,
         buffer[1].unit = 1, buffer[1].frame \notin damaged
  PROVE  \A i \in 1..Size : /\ buffer[i].frame = buffer[1].frame
                           /\ buffer[i].unit = i
<1>1. Size \in Nat \ {0} /\ Len(buffer) \in Nat
  BY LineTypes DEF S!StreamConstants
<1> SUFFICES ASSUME NEW i \in 1..Size
             PROVE  buffer[i].frame = buffer[1].frame /\ buffer[i].unit = i
  OBVIOUS
<1>2. /\ 1 \in Places /\ i \in Places /\ 1 <= i
      /\ Line(1) = buffer[1] /\ Line(i) = buffer[i]
  BY <1>1 DEF Places, Line
<1>3. i - 1 <= Size - 1
  BY <1>1
<1>4. Line(i).frame = buffer[1].frame /\ Line(i).unit = 1 + (i - 1)
  BY <1>2, <1>3 DEF LineInv, Unbroken
<1> QED
  BY <1>2, <1>4

(* In the buffer no two frames that lost nothing begin within Size units.  *)
LEMMA OneHead ==
  ASSUME S!StreamConstants, S!TypeOK, LineInv,
         NEW i \in 1..Len(buffer), NEW j \in 1..Len(buffer),
         i < Size + 1, j < Size + 1, buffer[i].unit = 1, buffer[j].unit = 1,
         buffer[i].frame \notin damaged, buffer[j].frame \notin damaged
  PROVE  i = j
<1>1. Size \in Nat \ {0} /\ Len(buffer) \in Nat
  BY LineTypes DEF S!StreamConstants
<1>2. /\ i \in Places /\ j \in Places
      /\ Line(i) = buffer[i] /\ Line(j) = buffer[j]
  BY <1>1 DEF Places, Line
<1>3. ~(i < j)
  <2> SUFFICES ASSUME i < j
               PROVE  FALSE
    OBVIOUS
  <2>1. j - i <= Size - 1
    BY <1>1
  <2>2. Line(j).unit = 1 + (j - i)
    BY <1>2, <2>1 DEF LineInv, Unbroken
  <2> QED
    BY <1>1, <1>2, <2>2
<1>4. ~(j < i)
  <2> SUFFICES ASSUME j < i
               PROVE  FALSE
    OBVIOUS
  <2>1. i - j <= Size - 1
    BY <1>1
  <2>2. Line(i).unit = 1 + (i - j)
    BY <1>2, <2>1 DEF LineInv, Unbroken
  <2> QED
    BY <1>1, <1>2, <2>2
<1> QED
  BY <1>1, <1>3, <1>4

LEMMA ParserDrops ==
  ASSUME S!StreamConstants, S!TypeOK,
         S!EspSkips \/ S!RtcmSkips \/ S!EspRejects \/ S!HandsOn
  PROVE  \E n \in 0..Len(buffer) : S!Drops(n)
<1>1. Len(buffer) \in Nat /\ Size \in Nat \ {0}
  BY LineTypes DEF S!StreamConstants
<1>2. CASE S!EspSkips
  BY <1>1, <1>2 DEF S!EspSkips, S!Skips
<1>3. CASE S!RtcmSkips
  BY <1>1, <1>3 DEF S!RtcmSkips, S!Skips, S!Enough
<1>4. CASE S!EspRejects
  BY <1>1, <1>4 DEF S!EspRejects, S!Skips, S!AtHeader, S!Enough, S!Rejected
<1>5. CASE S!HandsOn
  BY <1>1, <1>5, CandidateFacts DEF S!HandsOn
<1> QED
  BY <1>2, <1>3, <1>4, <1>5

(* What leaves the buffer.                                                 *)
LEMMA DroppedSets ==
  ASSUME S!StreamConstants, S!TypeOK, NEW n \in 0..Len(buffer), S!Drops(n)
  PROVE  /\ Begun' = Begun /\ Cuts' \subseteq Cuts
         /\ \A f \in Heads \ Heads' :
              \E i \in 1..n : buffer[i].frame = f /\ buffer[i].unit = 1
         /\ \A f \in Cuts' :
              \E i \in (n + 1)..Len(buffer) : buffer[i].frame = f
<1>1. /\ Len(buffer) \in Nat /\ Len(buffer') = Len(buffer) - n
      /\ \A i \in 1..Len(buffer') : buffer'[i] = buffer[i + n]
      /\ next' = next /\ damaged' = damaged /\ reader' = reader /\ link' = link
  BY DropTypes, LineTypes DEF S!Drops
<1>2. Begun' = Begun
  BY <1>1 DEF Begun
<1>3. ASSUME NEW f \in Cuts'
      PROVE  f \in Cuts /\ \E i \in (n + 1)..Len(buffer) : buffer[i].frame = f
  <2>1. PICK i \in 1..Len(buffer') : buffer'[i].frame = f
    BY <1>3 DEF Cuts
  <2>2. /\ i + n \in (n + 1)..Len(buffer) /\ i + n \in 1..Len(buffer)
        /\ buffer[i + n].frame = f
    <3>1. buffer[i + n].frame = f
      BY <1>1, <2>1
    <3>2. i + n \in (n + 1)..Len(buffer) /\ i + n \in 1..Len(buffer)
      BY <1>1
    <3> QED
      BY <3>1, <3>2
  <2> QED
    BY <1>1, <1>3, <2>2 DEF Cuts, S!Checked
<1>4. ASSUME NEW f \in Heads, f \notin Heads'
      PROVE  \E i \in 1..n : buffer[i].frame = f /\ buffer[i].unit = 1
  <2>1. PICK i \in 1..Len(buffer) : buffer[i].frame = f /\ buffer[i].unit = 1
    BY DEF Heads
  <2>2. ~(i > n)
    <3> SUFFICES ASSUME i > n
                 PROVE  FALSE
      OBVIOUS
    <3>1. /\ i - n \in 1..Len(buffer')
          /\ buffer'[i - n] = buffer[(i - n) + n] /\ (i - n) + n = i
      BY <1>1
    <3>2. f \in S!Frames
      BY DEF Heads
    <3> QED
      BY <1>4, <2>1, <3>1, <3>2 DEF Heads
  <2> QED
    BY <1>1, <2>1, <2>2
<1> QED
  BY <1>2, <1>3, <1>4

-----------------------------------------------------------------------------
(* The parts of the invariant, step by step.                               *)
LEMMA StreamInit ==
  ASSUME S!StreamConstants, S!Init
  PROVE  StreamInv
<1> USE DEF S!Init, S!StreamConstants
<1>1. S!TypeOK
  <2>1. next \in [frame : 1..(Count + 1), unit : 1..Size]
    OBVIOUS
  <2>2. /\ reader \in S!Readers /\ link \in BOOLEAN /\ fooled \in BOOLEAN
        /\ phase \in {"waiting", "reading", "parsing"}
        /\ delivered \subseteq S!Frames /\ damaged \subseteq S!Frames
        /\ garbled \in Nat /\ breaks \in Nat
    OBVIOUS
  <2>3. buffer \in Seq([frame : S!Frames, unit : 0..Size])
    OBVIOUS
  <2> QED
    BY <2>1, <2>2, <2>3 DEF S!TypeOK
<1>2. LineInv
  <2>1. Places = {1} /\ Line(1) = next
    BY DEF Places, Line
  <2> QED
    BY <2>1 DEF LineInv, Unbroken, Together, Rising
<1>3. WaitInv
  BY DEF WaitInv
<1>4. CountInv
  <2>1. Cuts = {} /\ Missing = {}
    BY DEF Cuts, Missing, Begun, S!Frames
  <2>2. S!Allowed = 0
    BY DEF S!Allowed
  <2> QED
    BY <2>1, <2>2, FS_EmptySet DEF CountInv
<1> QED
  BY <1>1, <1>2, <1>3, <1>4 DEF StreamInv

LEMMA StreamTypes ==
  ASSUME S!StreamConstants, S!TypeOK, WaitInv, [S!Next]_(S!vars)
  PROVE  S!TypeOK'
<1> DEFINE U == [frame : S!Frames, unit : 0..Size]
<1>1. /\ Count \in Nat /\ Size \in Nat \ {0} /\ buffer \in Seq(U)
      /\ next.frame \in 1..(Count + 1) /\ next.unit \in 1..Size
      /\ next = [frame |-> next.frame, unit |-> next.unit]
  BY DEF S!StreamConstants, S!TypeOK
<1>2. ASSUME S!Sends
      PROVE  /\ next' \in [frame : 1..(Count + 1), unit : 1..Size]
             /\ next.frame \in S!Frames
  <2>1. next.frame \in S!Frames /\ next' = S!After(next)
    BY <1>1, <1>2 DEF S!Sends, S!Frames
  <2>2. CASE next.unit < Size
    <3>1. next' = [next EXCEPT !.unit = next.unit + 1]
      BY <2>1, <2>2 DEF S!After
    <3>2. next.unit + 1 \in 1..Size
      BY <1>1, <2>2
    <3> QED
      BY <1>1, <2>1, <3>1, <3>2
  <2>3. CASE ~(next.unit < Size)
    <3>1. next' = [frame |-> next.frame + 1, unit |-> 1]
      BY <2>1, <2>3 DEF S!After
    <3>2. next.frame + 1 \in 1..(Count + 1) /\ 1 \in 1..Size
      BY <1>1, <2>1 DEF S!Frames
    <3> QED
      BY <2>1, <3>1, <3>2
  <2> QED
    BY <2>2, <2>3
<1>3. CASE S!Arrives
  <2>1. /\ next' \in [frame : 1..(Count + 1), unit : 1..Size]
        /\ next.frame \in S!Frames
    <3>1. S!Sends
      BY <1>3 DEF S!Arrives
    <3> QED
      BY <1>2, <3>1, Zenon
  <2>2. next \in U /\ [next EXCEPT !.unit = 0] \in U
    BY <1>1, <2>1
  <2>3. PICK u \in U : buffer' = Append(buffer, u)
    <3> HIDE DEF U
    <3> QED
      BY <1>3, <2>2 DEF S!Arrives
  <2>4. buffer' \in Seq(U)
    <3> HIDE DEF U
    <3> QED
      BY <1>1, <2>3
  <2>5. damaged' \subseteq S!Frames
    BY <1>3, <2>1 DEF S!Arrives, S!TypeOK
  <2> QED
    BY <1>3, <2>1, <2>4, <2>5 DEF S!Arrives, S!Sends, S!TypeOK
<1>4. CASE S!IsLost
  <2>1. /\ next' \in [frame : 1..(Count + 1), unit : 1..Size]
        /\ next.frame \in S!Frames
    <3>1. S!Sends
      BY <1>4 DEF S!IsLost
    <3> QED
      BY <1>2, <3>1, Zenon
  <2> QED
    BY <1>4, <2>1 DEF S!IsLost, S!Sends, S!TypeOK
<1>5. CASE S!EspReads \/ S!BridgeReads \/ S!PixhawkReads \/ S!NtripReads
  BY <1>5 DEF S!EspReads, S!BridgeReads, S!PixhawkReads, S!NtripReads, S!Read,
     S!TypeOK
<1>6. CASE S!EspSkips \/ S!RtcmSkips \/ S!EspRejects \/ S!HandsOn
  <2>1. PICK n \in 0..Len(buffer) : S!Drops(n)
    BY <1>6, ParserDrops
  <2>2. buffer' \in Seq(U)
    BY <2>1, DropTypes
  <2>3. UNCHANGED <<reader, link, phase, next, damaged, breaks>>
    BY <2>1 DEF S!Drops
  <2>4. CASE S!EspSkips \/ S!RtcmSkips \/ S!EspRejects
    <3>1. UNCHANGED <<delivered, garbled, fooled>>
      BY <2>4 DEF S!EspSkips, S!RtcmSkips, S!EspRejects, S!Skips
    <3> QED
      BY <2>2, <2>3, <3>1 DEF S!TypeOK
  <2>5. CASE S!HandsOn
    <3>1. S!Candidate[1] = buffer[1] /\ buffer[1].frame \in S!Frames
      BY <2>5, CandidateFacts, LineTypes DEF S!HandsOn
    <3>2. delivered' \subseteq S!Frames /\ garbled' \in Nat
      BY <2>5, <3>1 DEF S!HandsOn, S!TypeOK
    <3>3. fooled' \in BOOLEAN
      BY <2>5 DEF S!HandsOn, S!TypeOK
    <3> QED
      BY <2>2, <2>3, <3>2, <3>3 DEF S!TypeOK
  <2> QED
    BY <1>6, <2>4, <2>5
<1>7. CASE S!ParserStops
  <2>1. fooled' \in BOOLEAN
    BY <1>7 DEF S!ParserStops, S!TypeOK
  <2> QED
    BY <1>7, <2>1 DEF S!ParserStops, S!TypeOK
<1>8. CASE S!Break
  <2>1. next.unit # 1 => next.frame \in S!Frames
    BY <1>1 DEF WaitInv, S!Frames
  <2>2. CASE next.unit = 1
    BY <1>8, <2>2 DEF S!Break, S!TypeOK
  <2>3. CASE next.unit # 1
    <3>1. next' \in [frame : 1..(Count + 1), unit : 1..Size]
      BY <1>1, <1>8, <2>1, <2>3 DEF S!Break, S!Frames
    <3>2. /\ damaged' \subseteq S!Frames /\ breaks' \in Nat
          /\ link' \in BOOLEAN
          /\ UNCHANGED <<reader, phase, buffer, delivered, garbled, fooled>>
      <4>1. /\ damaged' = damaged \cup {next.frame} /\ breaks' = breaks + 1
            /\ link' = FALSE
            /\ UNCHANGED <<reader, phase, buffer, delivered, garbled, fooled>>
        BY <1>8, <2>3 DEF S!Break
      <4>2. damaged \subseteq S!Frames /\ breaks \in Nat
        BY DEF S!TypeOK
      <4>3. damaged' \subseteq S!Frames
        BY <2>1, <2>3, <4>1, <4>2
      <4>4. breaks' \in Nat
        BY <4>1, <4>2
      <4>5. link' \in BOOLEAN
        BY <4>1
      <4> QED
        BY <4>1, <4>3, <4>4, <4>5
    <3> QED
      BY <3>1, <3>2 DEF S!TypeOK
  <2> QED
    BY <2>2, <2>3
<1>9. CASE S!Connect(buffer) \/ S!Connect(<<>>)
  <2>1. buffer' \in Seq(U)
    <3>1. buffer' = buffer \/ buffer' = <<>>
      BY <1>9 DEF S!Connect
    <3>2. <<>> \in Seq(U)
      OBVIOUS
    <3> HIDE DEF U
    <3> QED
      BY <1>1, <3>1, <3>2
  <2>2. /\ link' \in BOOLEAN
        /\ UNCHANGED <<reader, phase, next, delivered, garbled, damaged,
                       breaks, fooled>>
    BY <1>9 DEF S!Connect
  <2> QED
    BY <2>1, <2>2 DEF S!TypeOK
<1>10. CASE UNCHANGED S!vars
  BY <1>10 DEF S!vars, S!TypeOK
<1> QED
  BY <1>3, <1>4, <1>5, <1>6, <1>7, <1>8, <1>9, <1>10
     DEF S!Next, S!ReadNothing, S!BridgeCloses, S!PixhawkCloses,
         S!NtripCloses, S!BridgeConnects, S!PixhawkConnects, S!NtripConnects

LEMMA StreamLines ==
  ASSUME S!StreamConstants, S!TypeOK, LineInv, WaitInv, [S!Next]_(S!vars)
  PROVE  LineInv'
<1> USE DEF S!StreamConstants
<1>1. ASSUME UNCHANGED <<reader, next, buffer, damaged>>
      PROVE  LineInv'
  BY <1>1 DEF LineInv, Unbroken, Together, Rising, Places, Line, S!Checked
<1>2. CASE S!Arrives
  BY <1>2, LineArrives
<1>3. CASE S!IsLost
  <2>1. /\ next'.frame \in Int /\ next'.unit \in Int /\ next'.unit > 0
        /\ next'.frame >= next.frame
    BY <1>3 DEF S!IsLost, S!Sends, S!After, S!TypeOK
  <2> QED
    BY <1>3, <2>1, LineCut DEF S!IsLost, S!Sends
<1>4. CASE S!EspSkips \/ S!RtcmSkips \/ S!EspRejects \/ S!HandsOn
  BY <1>4, ParserDrops, LineDrops
<1>5. CASE S!Break
  <2>1. CASE next.unit = 1
    BY <1>1, <1>5, <2>1 DEF S!Break
  <2>2. CASE next.unit # 1
    <3>1. /\ next'.frame \in Int /\ next'.unit \in Int /\ next'.unit > 0
          /\ next'.frame >= next.frame /\ next'.frame > next.frame
      BY <1>5, <2>2 DEF S!Break, S!TypeOK
    <3> QED
      BY <1>5, <2>2, <3>1, LineCut DEF S!Break
  <2> QED
    BY <2>1, <2>2
<1>6. CASE S!Connect(<<>>)
  <2>1. /\ Places' = {1} /\ Line(1)' = next
        /\ UNCHANGED <<reader, next, damaged>>
    BY <1>6 DEF S!Connect, Places, Line
  <2>2. next.frame \in Int /\ next.unit \in Int /\ next.unit > 0
    BY DEF S!TypeOK
  <2> QED
    BY <2>1, <2>2 DEF LineInv, Unbroken, Together, Rising, S!Checked
<1>7. CASE UNCHANGED <<reader, next, buffer, damaged>>
  BY <1>1, <1>7
<1> QED
  BY <1>2, <1>3, <1>4, <1>5, <1>6, <1>7
     DEF S!Next, S!vars, S!EspReads, S!BridgeReads, S!PixhawkReads,
         S!NtripReads, S!Read, S!ReadNothing, S!ParserStops, S!BridgeCloses,
         S!PixhawkCloses, S!NtripCloses, S!BridgeConnects, S!PixhawkConnects,
         S!NtripConnects, S!Connect

LEMMA StreamWaits ==
  ASSUME S!StreamConstants, S!TypeOK, WaitInv, [S!Next]_(S!vars)
  PROVE  WaitInv'
<1>1. /\ Count \in Nat /\ Size \in Nat \ {0} /\ Len(buffer) \in Nat
      /\ next.frame \in 1..(Count + 1) /\ next.unit \in 1..Size
  BY DEF S!StreamConstants, S!TypeOK
<1>2. ASSUME S!Sends
      PROVE  next'.frame > Count => next'.unit = 1
  BY <1>1, <1>2 DEF S!Sends, S!After
<1>3. CASE S!Arrives
  BY <1>2, <1>3 DEF S!Arrives, S!Sends, WaitInv
<1>4. CASE S!IsLost
  BY <1>2, <1>4 DEF S!IsLost, S!Sends, WaitInv
<1>5. CASE S!Read
  BY <1>5 DEF S!Read, WaitInv
<1>6. CASE S!EspSkips \/ S!RtcmSkips \/ S!EspRejects \/ S!HandsOn
  BY <1>6, ParserDrops DEF S!Drops, WaitInv
<1>7. CASE S!ParserStops
  <2>1. /\ link /\ UNCHANGED <<link, next, buffer, reader>>
    BY <1>7 DEF S!ParserStops, WaitInv
  <2>2. ~fooled' => Len(buffer) < Size
    <3>1. CASE ~S!Enough
      BY <1>1, <3>1 DEF S!Enough
    <3>2. CASE /\ S!AtHeader /\ ~S!IsComplete
               /\ fooled' = (fooled \/ S!FooledHere)
      <4>1. ~fooled' => ~S!FooledHere
        BY <3>2
      <4>2. ~S!FooledHere => S!Length(buffer[1]) = Size
        BY <3>2, CandidateFacts
      <4>3. ~(Len(buffer) >= S!Length(buffer[1]))
        BY <3>2 DEF S!IsComplete
      <4> QED
        BY <1>1, <4>1, <4>2, <4>3
    <3> QED
      BY <1>7, <3>1, <3>2 DEF S!ParserStops
  <2> QED
    BY <2>1, <2>2 DEF WaitInv
<1>8. CASE S!Break
  BY <1>1, <1>8 DEF S!Break, WaitInv
<1>9. CASE S!Connect(buffer)
  BY <1>9 DEF S!Connect, WaitInv
<1>10. CASE S!Connect(<<>>)
  BY <1>1, <1>10 DEF S!Connect, WaitInv
<1>11. CASE UNCHANGED S!vars
  BY <1>11 DEF S!vars, WaitInv
<1> QED
  BY <1>3, <1>4, <1>5, <1>6, <1>7, <1>8, <1>9, <1>10, <1>11
     DEF S!Next, S!EspReads, S!BridgeReads, S!PixhawkReads, S!NtripReads,
         S!ReadNothing, S!BridgeCloses, S!PixhawkCloses, S!NtripCloses,
         S!BridgeConnects, S!PixhawkConnects, S!NtripConnects

(* The counts: a step that loses no frame and cuts no other, a break, and  *)
(* a garbled candidate.                                                    *)
LEMMA SetsOfFrames ==
  ASSUME S!StreamConstants, S!TypeOK
  PROVE  /\ Missing \in SUBSET S!Frames /\ Cuts \in SUBSET S!Frames
         /\ Cardinality(Missing) \in Nat /\ Cardinality(Cuts) \in Nat
         /\ garbled \in Nat /\ breaks \in Nat /\ S!Allowed \in Nat
<1>1. Missing \in SUBSET S!Frames /\ Cuts \in SUBSET S!Frames
  BY DEF Missing, Begun, Cuts, S!TypeOK
<1>2. garbled \in Nat /\ breaks \in Nat /\ S!Allowed \in Nat
  BY DEF S!TypeOK, S!Allowed
<1> QED
  BY <1>1, <1>2, FewFrames

LEMMA CountKept ==
  ASSUME S!StreamConstants, S!TypeOK, S!TypeOK', CountInv,
         fooled => fooled', reader' = reader, garbled' = garbled,
         breaks' = breaks,
         ~fooled' => Missing' \subseteq Missing /\ Cuts' \subseteq Cuts
  PROVE  CountInv'
<1> SUFFICES ASSUME ~fooled'
             PROVE  /\ garbled' + Cardinality(Cuts') <= S!Allowed'
                    /\ Cardinality(Missing') <= garbled'
  BY DEF CountInv
<1>1. /\ garbled + Cardinality(Cuts) <= S!Allowed
      /\ Cardinality(Missing) <= garbled
  BY DEF CountInv
<1>2. /\ Cardinality(Cuts') <= Cardinality(Cuts)
      /\ Cardinality(Missing') <= Cardinality(Missing)
  BY SetsOfFrames, FewerFrames
<1>3. Cardinality(Cuts') \in Nat /\ Cardinality(Missing') \in Nat
  <2>1. Missing' \in SUBSET S!Frames /\ Cuts' \in SUBSET S!Frames
    BY SetsOfFrames
  <2> QED
    BY <2>1, FewFrames
<1>4. S!Allowed' = S!Allowed
  BY DEF S!Allowed
<1> QED
  BY <1>1, <1>2, <1>3, <1>4, SetsOfFrames

LEMMA CountBreaks ==
  ASSUME S!StreamConstants, S!TypeOK, S!TypeOK', CountInv, WaitInv, S!Break,
         ~S!Checked
  PROVE  CountInv'
<1>1. /\ reader' = reader /\ buffer' = buffer /\ garbled' = garbled
      /\ delivered' = delivered /\ fooled' = fooled /\ link' = FALSE
      /\ link
  BY DEF S!Break
<1>2. Heads' = Heads
  BY <1>1 DEF Heads
<1>3. CASE next.unit = 1
  <2>1. UNCHANGED <<next, damaged, breaks>>
    BY <1>3 DEF S!Break
  <2>2. Missing' = Missing
    BY <1>1, <1>2, <2>1 DEF Missing, Begun
  <2>3. Cuts' \subseteq Cuts
    BY <1>1, <2>1 DEF Cuts, S!Checked
  <2> QED
    BY <1>1, <2>1, <2>2, <2>3, CountKept
<1>4. CASE next.unit # 1
  <2>1. /\ next' = [frame |-> next.frame + 1, unit |-> 1]
        /\ damaged' = damaged \cup {next.frame} /\ breaks' = breaks + 1
    BY <1>4 DEF S!Break
  <2>2. Missing' \subseteq Missing
    <3>1. next.frame \in Nat /\ next.unit > 1
      BY <1>4 DEF S!TypeOK
    <3>2. ASSUME NEW f \in Missing'
          PROVE  f \in Missing
      <4>1. /\ f \in S!Frames /\ f \in Int /\ f \notin damaged'
            /\ f \notin delivered /\ f \notin Heads
        BY <1>1, <1>2, <3>2 DEF Missing, Begun, S!Frames
      <4>2. f < next.frame + 1
        BY <2>1, <3>2 DEF Missing, Begun
      <4>3. f < next.frame
        BY <2>1, <3>1, <4>1, <4>2
      <4> QED
        BY <2>1, <4>1, <4>3 DEF Missing, Begun
    <3> QED
      BY <3>2
  <2> SUFFICES ASSUME ~fooled'
               PROVE  /\ garbled' + Cardinality(Cuts') <= S!Allowed'
                      /\ Cardinality(Missing') <= garbled'
    BY DEF CountInv
  <2>3. /\ garbled + Cardinality(Cuts) <= S!Allowed
        /\ Cardinality(Missing) <= garbled
    BY <1>1 DEF CountInv
  <2>4. Cuts' \in SUBSET S!Frames /\ Missing' \in SUBSET S!Frames
    BY DEF Cuts, Missing, Begun, S!TypeOK
  <2>5. Cardinality(Cuts') \in Nat /\ Cardinality(Missing') \in Nat
    BY <2>4, FewFrames
  <2>6. Cardinality(Missing') <= Cardinality(Missing)
    BY <2>2, SetsOfFrames, FewerFrames
  <2>7. CASE reader = "ntrip"
    <3>1. Cuts' = {}
      BY <1>1, <2>7 DEF Cuts
    <3>2. Cardinality(Cuts') = 0
      BY <3>1, FS_EmptySet
    <3>3. S!Allowed' = S!Allowed
      BY <1>1, <2>7 DEF S!Allowed
    <3> QED
      BY <1>1, <2>3, <2>5, <2>6, <3>2, <3>3, SetsOfFrames
  <2>8. CASE reader # "ntrip"
    <3>1. Cuts' \subseteq Cuts \cup {next.frame}
      BY <1>1, <2>1, <2>8 DEF Cuts, S!Checked
    <3>2. Cardinality(Cuts') <= Cardinality(Cuts) + 1
      BY <3>1, SetsOfFrames, OneMoreFrame
    <3>3. reader \in {"bridge", "pixhawk"}
      BY <2>8 DEF S!TypeOK, S!Readers, S!Checked
    <3>4. S!Allowed = breaks /\ S!Allowed' = breaks + 1
      BY <1>1, <2>1, <3>3 DEF S!Allowed
    <3> QED
      BY <1>1, <2>3, <2>5, <2>6, <3>2, <3>4, SetsOfFrames
  <2> QED
    BY <2>7, <2>8
<1> QED
  BY <1>3, <1>4

(* Bytes that begin no frame leave, and a frame that was damaged.          *)
LEMMA CountSkips ==
  ASSUME S!StreamConstants, S!TypeOK, S!TypeOK', LineInv, CountInv,
         S!EspSkips \/ S!RtcmSkips \/ S!EspRejects
  PROVE  CountInv'
<1>1. PICK n \in 0..Len(buffer) :
        /\ S!Drops(n) /\ UNCHANGED <<delivered, garbled, fooled>>
        /\ \A i \in 1..n : buffer[i].unit = 1 => buffer[i].frame \in damaged
  <2>1. Len(buffer) \in Nat /\ Size \in Nat \ {0}
    BY LineTypes DEF S!StreamConstants
  <2>2. CASE S!EspSkips
    <3>1. PICK k \in 1..Len(buffer) :
            S!Skips(k) /\ \A i \in 1..k : ~S!LooksLikeHeader(buffer[i])
      BY <2>2 DEF S!EspSkips
    <3>2. \A i \in 1..k : buffer[i].unit # 1
      BY <3>1 DEF S!LooksLikeHeader
    <3> QED
      BY <2>1, <3>1, <3>2 DEF S!Skips
  <2>3. CASE S!RtcmSkips
    <3>1. buffer[1].unit # 1 /\ Len(buffer) > 0
      BY <2>1, <2>3 DEF S!RtcmSkips, S!AtHeader, S!LooksLikeHeader, S!Enough
    <3>2. S!Skips(1) /\ 1 \in 0..Len(buffer)
      BY <2>1, <2>3, <3>1 DEF S!RtcmSkips
    <3> QED
      BY <3>1, <3>2 DEF S!Skips
  <2>4. CASE S!EspRejects
    <3>1. /\ S!Skips(1) /\ S!Checked /\ S!AtHeader /\ ~S!IsWhole(S!Candidate)
          /\ Len(buffer) >= Size
      BY <2>4 DEF S!EspRejects, S!Rejected, S!AtHeader, S!Enough
    <3>2. buffer[1].unit = 1 => buffer[1].frame \in damaged
      BY <3>1, CandidateFacts, UndamagedIsWhole
    <3> QED
      BY <2>1, <3>1, <3>2 DEF S!Skips
  <2> QED
    BY <2>2, <2>3, <2>4
<1>2. Missing' \subseteq Missing
  <2> SUFFICES ASSUME NEW f \in Missing', f \in Heads
               PROVE  FALSE
    BY <1>1, DroppedSets DEF Missing, S!Drops
  <2>1. f \notin Heads' /\ f \notin damaged
    BY <1>1 DEF Missing, S!Drops
  <2> QED
    BY <1>1, <2>1, DroppedSets
<1>3. Cuts' \subseteq Cuts
  BY <1>1, DroppedSets
<1> QED
  BY <1>1, <1>2, <1>3, CountKept DEF S!Drops

(* What is handed on: a whole frame was found; one that is garbled begins  *)
(* with what is left of a damaged frame, and no other begins in it but the *)
(* one it hides.                                                           *)
LEMMA CountHandsOn ==
  ASSUME S!StreamConstants, S!TypeOK, S!TypeOK', LineInv, WaitInv, CountInv,
         S!HandsOn
  PROVE  CountInv'
<1> SUFFICES ASSUME ~fooled'
             PROVE  CountInv'
  BY DEF CountInv
<1>1. /\ S!AtHeader /\ S!IsComplete /\ S!Drops(S!Length(buffer[1]))
      /\ ~fooled /\ ~S!FooledHere
  BY DEF S!HandsOn
<1>2. /\ Len(buffer) \in Nat \ {0} /\ Size \in 1..Len(buffer)
      /\ S!Length(buffer[1]) = Size /\ S!Drops(Size)
      /\ Size \in 0..Len(buffer) /\ S!Candidate[1] = buffer[1]
  BY <1>1, CandidateFacts
<1>3. /\ Begun' = Begun /\ Cuts' \subseteq Cuts /\ damaged' = damaged
      /\ reader' = reader /\ breaks' = breaks /\ link' = link
  BY <1>2, DroppedSets DEF S!Drops
<1>4. \A f \in Heads \ Heads' :
        \E i \in 1..Size : buffer[i].frame = f /\ buffer[i].unit = 1
  BY <1>2, DroppedSets
<1>5. CASE S!IsWhole(S!Candidate)
  <2>1. delivered' = delivered \cup {buffer[1].frame} /\ garbled' = garbled
    BY <1>2, <1>5 DEF S!HandsOn
  <2>2. \A i \in 1..Size : buffer[i].frame = buffer[1].frame
    BY <1>1, <1>5, CandidateFacts
  <2>3. Missing' \subseteq Missing
    BY <1>3, <1>4, <2>1, <2>2 DEF Missing
  <2> QED
    BY <1>1, <1>3, <2>1, <2>3, CountKept
<1>6. CASE ~S!IsWhole(S!Candidate)
  <2>1. ~S!Checked /\ garbled' = garbled + 1 /\ delivered' = delivered
    BY <1>6 DEF S!HandsOn
  <2> DEFINE cut == buffer[1].frame
  <2>2. buffer[1].unit = 1
    BY <1>1, <2>1 DEF S!FooledHere
  <2>3. cut \in damaged
    <3> SUFFICES ASSUME cut \notin damaged
                 PROVE  FALSE
      OBVIOUS
    <3>1. Len(buffer) >= Size
      BY <1>2
    <3>2. \A i \in 1..Size : /\ buffer[i].frame = buffer[1].frame
                            /\ buffer[i].unit = i
      BY <2>2, <3>1, UndamagedIsWhole
    <3> QED
      BY <1>1, <1>2, <1>6, <3>2, CandidateFacts
  <2>4. cut \notin Cuts'
    <3> SUFFICES ASSUME cut \in Cuts'
                 PROVE  FALSE
      OBVIOUS
    <3>1. PICK i \in (Size + 1)..Len(buffer) : buffer[i].frame = cut
      BY <1>2, DroppedSets
    <3>2. /\ 1 \in Places /\ i \in Places /\ 1 < i
          /\ Line(1) = buffer[1] /\ Line(i) = buffer[i]
      BY <1>2 DEF Places, Line
    <3>3. buffer[i].unit = 1 + (i - 1)
      BY <2>1, <2>2, <3>1, <3>2 DEF LineInv, Together
    <3>4. buffer[i].unit \in 0..Size
      BY <1>2, LineTypes
    <3> QED
      BY <1>2, <3>3, <3>4
  <2>5. Cardinality(Cuts') + 1 <= Cardinality(Cuts) \/ cut \notin Cuts
    BY <1>3, <2>4, SetsOfFrames, FewerFrames
  <2>6. PICK f : Missing' \subseteq Missing \cup {f}
    <3>1. CASE Missing' \subseteq Missing
      BY <3>1
    <3>2. CASE ~(Missing' \subseteq Missing)
      <4>1. PICK f \in Missing' : f \notin Missing
        BY <3>2
      <4>2. ASSUME NEW g \in Missing', g \notin Missing
            PROVE  /\ g \notin damaged
                   /\ \E i \in 1..Size :
                        buffer[i].frame = g /\ buffer[i].unit = 1
        BY <1>3, <1>4, <2>1, <4>2 DEF Missing
      <4>3. ASSUME NEW g \in Missing', g \notin Missing
            PROVE  g = f
        <5>1. PICK i \in 1..Size : buffer[i].frame = g /\ buffer[i].unit = 1
          BY <4>2, <4>3
        <5>2. PICK j \in 1..Size : buffer[j].frame = f /\ buffer[j].unit = 1
          BY <4>1, <4>2
        <5>3. g \notin damaged /\ f \notin damaged
          BY <4>1, <4>2, <4>3
        <5>4. /\ i \in 1..Len(buffer) /\ j \in 1..Len(buffer)
              /\ i < Size + 1 /\ j < Size + 1
          BY <1>2
        <5>5. i = j
          BY <5>1, <5>2, <5>3, <5>4, OneHead
        <5> QED
          BY <5>1, <5>2, <5>5
      <4> QED
        BY <4>3
    <3> QED
      BY <3>1, <3>2
  <2>7. Cardinality(Missing') <= Cardinality(Missing) + 1
    BY <2>6, SetsOfFrames, OneMoreFrame
  <2>8. cut \in Cuts
    <3>1. link
      BY <1>2 DEF WaitInv, S!Drops
    <3> QED
      BY <1>2, <2>1, <2>3, <3>1 DEF Cuts
  <2>9. /\ garbled + Cardinality(Cuts) <= S!Allowed
        /\ Cardinality(Missing) <= garbled /\ S!Allowed' = S!Allowed
    BY <1>1, <1>3 DEF CountInv, S!Allowed
  <2>10. Cuts' \in SUBSET S!Frames /\ Missing' \in SUBSET S!Frames
    BY DEF Cuts, Missing, Begun, S!TypeOK
  <2>11. Cardinality(Cuts') \in Nat /\ Cardinality(Missing') \in Nat
    BY <2>10, FewFrames
  <2>12. Cardinality(Cuts') + 1 <= Cardinality(Cuts)
    BY <2>5, <2>8
  <2>13. /\ garbled' + Cardinality(Cuts') <= S!Allowed'
         /\ Cardinality(Missing') <= garbled'
    BY <2>1, <2>7, <2>9, <2>11, <2>12, SetsOfFrames
  <2> QED
    BY <2>13 DEF CountInv
<1> QED
  BY <1>5, <1>6

(* What arrives, or is lost, makes no other frame missing.                 *)
LEMMA CountSends ==
  ASSUME S!StreamConstants, S!TypeOK, S!TypeOK', LineInv, CountInv,
         S!Arrives \/ S!IsLost
  PROVE  CountInv'
<1>1. /\ S!Sends /\ reader' = reader /\ delivered' = delivered
      /\ garbled' = garbled /\ breaks' = breaks /\ fooled' = fooled
      /\ link' = link /\ next' = S!After(next)
  BY DEF S!Arrives, S!IsLost, S!Sends
<1>2. /\ next.frame \in S!Frames /\ next.frame \in Nat
      /\ next.unit \in 1..Size /\ Size \in Nat /\ Len(buffer) \in Nat
  BY DEF S!Sends, S!Arrives, S!IsLost, S!TypeOK, S!StreamConstants, S!Frames
<1>3. ASSUME NEW f \in Begun'
      PROVE  f \in Begun \/ (f = next.frame /\ next.unit = 1)
  <2>1. f \in S!Frames /\ f \in Int
    BY <1>3 DEF Begun, S!Frames
  <2>2. CASE next.unit < Size
    <3>1. next'.frame = next.frame
      BY <1>1, <2>2 DEF S!After, S!TypeOK
    <3> QED
      BY <1>2, <1>3, <2>1, <3>1 DEF Begun
  <2>3. CASE ~(next.unit < Size)
    <3>1. next'.frame = next.frame + 1 /\ next'.unit = 1
      BY <1>1, <2>3 DEF S!After
    <3>2. f < next.frame \/ f = next.frame
      BY <1>2, <1>3, <2>1, <3>1 DEF Begun
    <3> QED
      BY <1>2, <2>1, <3>2 DEF Begun
  <2> QED
    BY <2>2, <2>3
<1>4. /\ damaged \subseteq damaged' /\ Heads \subseteq Heads'
      /\ next.unit = 1 => next.frame \in damaged' \cup Heads'
  <2>1. CASE S!IsLost
    BY <2>1 DEF S!IsLost, Heads
  <2>2. CASE S!Arrives
    <3>1. /\ Len(buffer') = Len(buffer) + 1
          /\ \A i \in 1..Len(buffer) : buffer'[i] = buffer[i]
          /\ \/ buffer'[Len(buffer) + 1] = next /\ damaged' = damaged
             \/ damaged' = damaged \cup {next.frame}
      <4> DEFINE U == [frame : S!Frames, unit : 0..Size]
      <4>1. buffer \in Seq(U)
        BY DEF S!TypeOK
      <4>2. \/ buffer' = Append(buffer, next) /\ damaged' = damaged
            \/ /\ \E u : buffer' = Append(buffer, u)
               /\ damaged' = damaged \cup {next.frame}
        BY <2>2 DEF S!Arrives
      <4> HIDE DEF U
      <4> QED
        BY <4>1, <4>2
    <3>2. \A i \in 1..Len(buffer) : i \in 1..Len(buffer')
      BY <1>2, <3>1
    <3>3. Heads \subseteq Heads'
      BY <3>1, <3>2 DEF Heads
    <3>4. Len(buffer) + 1 \in 1..Len(buffer')
      BY <1>2, <3>1
    <3> QED
      BY <1>2, <3>1, <3>3, <3>4 DEF Heads
  <2> QED
    BY <2>1, <2>2
<1>5. Missing' \subseteq Missing
  BY <1>1, <1>3, <1>4 DEF Missing
<1>6. Cuts' \subseteq Cuts
  <2> SUFFICES ASSUME NEW f \in Cuts'
               PROVE  f \in Cuts
    OBVIOUS
  <2>1. ~S!Checked /\ (reader = "ntrip" => link)
    BY <1>1 DEF Cuts, S!Checked
  <2>2. S!Arrives /\ buffer' = Append(buffer, next) /\ damaged' = damaged
    BY <2>1 DEF S!Arrives, S!IsLost
  <2>3. f \in damaged /\ f # next.frame
    <3>1. f \in damaged /\ f < next.frame
      BY <2>1, <2>2 DEF Cuts, LineInv, Together
    <3> QED
      BY <1>2, <3>1
  <2>4. PICK i \in 1..Len(buffer') : buffer'[i].frame = f
    BY DEF Cuts
  <2>5. i \in 1..Len(buffer) /\ buffer[i] = buffer'[i]
    BY <1>2, <2>2, <2>3, <2>4 DEF S!TypeOK
  <2> QED
    BY <2>1, <2>3, <2>4, <2>5 DEF Cuts
<1> QED
  BY <1>1, <1>5, <1>6, CountKept

(* A reader that waits, and has no unit of the next frame, holds no frame  *)
(* that is whole: to empty its buffer loses none.                          *)
LEMMA NothingWaits ==
  ASSUME S!StreamConstants, S!TypeOK, LineInv, WaitInv, phase = "waiting",
         ~fooled, NEW f \in Heads \ damaged
  PROVE  f = next.frame /\ next.unit > 1
<1>1. PICK i \in 1..Len(buffer) : buffer[i].frame = f /\ buffer[i].unit = 1
  BY DEF Heads
<1> DEFINE n == Len(buffer)
<1>2. /\ n \in Nat /\ Size \in Nat \ {0} /\ n < Size /\ i \in 1..n
  BY <1>1, LineTypes DEF WaitInv, S!StreamConstants
<1>3. /\ i \in Places /\ n + 1 \in Places /\ i <= n + 1
      /\ Line(i) = buffer[i] /\ Line(n + 1) = next
  BY <1>2 DEF Places, Line
<1>4. (n + 1) - i <= Size - 1
  BY <1>2
<1>5. next.frame = f /\ next.unit = 1 + ((n + 1) - i)
  BY <1>1, <1>3, <1>4 DEF LineInv, Unbroken
<1> QED
  BY <1>2, <1>5

LEMMA CountConnects ==
  ASSUME S!StreamConstants, S!TypeOK, S!TypeOK', LineInv, WaitInv, CountInv,
         \/ (reader # "ntrip" /\ S!Connect(buffer))
         \/ (reader = "ntrip" /\ S!Connect(<<>>))
  PROVE  CountInv'
<1> SUFFICES ASSUME ~fooled
             PROVE  CountInv'
  BY DEF CountInv, S!Connect
<1>1. /\ UNCHANGED <<reader, phase, next, delivered, garbled, damaged, breaks,
                     fooled>>
      /\ ~link
  BY DEF S!Connect
<1>2. phase = "waiting" /\ next.unit = 1
  BY <1>1 DEF WaitInv
<1>3. CASE reader # "ntrip" /\ S!Connect(buffer)
  <2>1. buffer' = buffer
    BY <1>3 DEF S!Connect
  <2>2. Missing' = Missing /\ Cuts' = Cuts
    BY <1>1, <1>3, <2>1 DEF Missing, Begun, Heads, Cuts, S!Checked
  <2> QED
    BY <1>1, <2>2, CountKept
<1>4. CASE reader = "ntrip" /\ S!Connect(<<>>)
  <2>1. buffer' = <<>>
    BY <1>4 DEF S!Connect
  <2>2. Cuts' = {}
    BY <2>1 DEF Cuts
  <2>3. Heads \subseteq damaged
    BY <1>2, NothingWaits
  <2>4. Missing' \subseteq Missing
    BY <1>1, <2>3 DEF Missing, Begun
  <2> QED
    BY <1>1, <2>2, <2>4, CountKept
<1> QED
  BY <1>3, <1>4

LEMMA StreamCounts ==
  ASSUME S!StreamConstants, S!TypeOK, S!TypeOK', LineInv, WaitInv, CountInv,
         [S!Next]_(S!vars)
  PROVE  CountInv'
<1>1. CASE S!Arrives \/ S!IsLost
  BY <1>1, CountSends
<1>2. CASE S!EspSkips \/ S!RtcmSkips \/ S!EspRejects
  BY <1>2, CountSkips
<1>3. CASE S!HandsOn
  BY <1>3, CountHandsOn
<1>4. CASE S!BridgeCloses \/ S!PixhawkCloses \/ S!NtripCloses
  BY <1>4, CountBreaks
     DEF S!BridgeCloses, S!PixhawkCloses, S!NtripCloses, S!Checked
<1>5. CASE S!BridgeConnects \/ S!PixhawkConnects \/ S!NtripConnects
  BY <1>5, CountConnects
     DEF S!BridgeConnects, S!PixhawkConnects, S!NtripConnects
<1>6. CASE S!ParserStops
  <2>1. UNCHANGED <<reader, link, next, buffer, delivered, garbled, damaged,
                    breaks>>
    BY <1>6 DEF S!ParserStops
  <2>2. fooled => fooled'
    BY <1>6 DEF S!ParserStops
  <2>3. Missing' = Missing /\ Cuts' = Cuts
    BY <2>1 DEF Missing, Begun, Heads, Cuts, S!Checked
  <2> QED
    BY <2>1, <2>2, <2>3, CountKept
<1>7. CASE UNCHANGED <<reader, link, next, buffer, delivered, garbled, damaged,
                       breaks, fooled>>
  <2>1. Missing' = Missing /\ Cuts' = Cuts
    BY <1>7 DEF Missing, Begun, Heads, Cuts, S!Checked
  <2> QED
    BY <1>7, <2>1, CountKept
<1> QED
  BY <1>1, <1>2, <1>3, <1>4, <1>5, <1>6, <1>7
     DEF S!Next, S!vars, S!EspReads, S!BridgeReads, S!PixhawkReads,
         S!NtripReads, S!Read, S!ReadNothing

(* Once the last read is parsed, what arrived and was not found is missing.*)
LEMMA FoundFromInv ==
  ASSUME S!StreamConstants, StreamInv
  PROVE  S!FramesAreFound
<1> SUFFICES ASSUME ~fooled
             PROVE  /\ phase = "waiting" =>
                         Cardinality((1..(next.frame - 1) \ damaged)
                                       \ delivered) <= S!Allowed
                    /\ garbled <= S!Allowed
  BY DEF S!FramesAreFound, S!Cardinality, Cardinality
<1>1. /\ garbled + Cardinality(Cuts) <= S!Allowed
      /\ Cardinality(Missing) <= garbled
  BY DEF StreamInv, CountInv
<1>2. garbled <= S!Allowed
  BY <1>1, SetsOfFrames DEF StreamInv
<1>3. ASSUME phase = "waiting"
      PROVE  Cardinality((1..(next.frame - 1) \ damaged) \ delivered)
               <= S!Allowed
  <2> DEFINE lost == (1..(next.frame - 1) \ damaged) \ delivered
  <2>1. lost \subseteq Missing
    <3> SUFFICES ASSUME NEW f \in lost
                 PROVE  f \in Missing
      OBVIOUS
    <3>1. f \in S!Frames /\ f < next.frame /\ f # next.frame
      BY DEF StreamInv, S!TypeOK, S!Frames, S!StreamConstants
    <3>2. f \notin Heads
      BY <1>3, <3>1, NothingWaits DEF StreamInv
    <3> QED
      BY <3>1, <3>2 DEF Missing, Begun
  <2>2. Cardinality(lost) <= Cardinality(Missing)
    BY <2>1, SetsOfFrames, FewerFrames DEF StreamInv
  <2>3. Cardinality(lost) \in Nat
    <3>1. lost \in SUBSET S!Frames
      BY <2>1, SetsOfFrames DEF StreamInv
    <3> HIDE DEF lost
    <3> QED
      BY <3>1, FewFrames
  <2> QED
    BY <1>1, <1>2, <2>2, <2>3, SetsOfFrames DEF StreamInv
<1> QED
  BY <1>2, <1>3

-----------------------------------------------------------------------------
(* The streams change by their own steps only.                             *)
LEMMA StreamFrame ==
  /\ Init => S!Init
  /\ [Next]_vars => [S!Next]_(S!vars)
BY DEF Init, Next, vars, Recorder, Manual, Zones, Camera, Pages, Datum, Follow,
   Streams, Status, streamVars, S!vars

(* Every frame that arrived whole is found and nothing else is handed on,  *)
(* but for what a broken connection costs rtk_bridge and pixhawk_driver:   *)
(* however the units are lost, corrupted and read, for any size of frame.  *)
THEOREM FramesAreAlwaysFound ==
  ASSUME S!StreamConstants
  PROVE  Spec => []FramesAreFound
<1>1. Init => StreamInv
  BY StreamFrame, StreamInit
<1>2. StreamInv /\ [Next]_vars => StreamInv'
  BY StreamFrame, StreamTypes, StreamLines, StreamWaits, StreamCounts
     DEF StreamInv
<1>3. StreamInv => FramesAreFound
  BY FoundFromInv DEF FramesAreFound
<1> QED
  BY <1>1, <1>2, <1>3, PTL DEF Spec
=============================================================================
