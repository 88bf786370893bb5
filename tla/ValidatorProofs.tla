--------------------------- MODULE ValidatorProofs ---------------------------
(***************************************************************************)
(* The validator, for every number of lists, records, edits and lines,     *)
(* every depth limit and up to two resolvers: playlists are parsed to what *)
(* they announce; a walk asks each resolver for each list once at most, is *)
(* complete unless it is disturbed, and leaves behind the hash of the root *)
(* its list came from.                                                     *)
(***************************************************************************)
EXTENDS SourceValidator, FiniteSetTheorems, FunctionTheorems, WellFoundedInduction,
        TLAPS

-----------------------------------------------------------------------------
(* The parser of playlists, for every playlist.                            *)

\* What is known of a line is known of the lines before it.
Below == {p \in Nat \X Nat : p[1] < p[2]}

\* A nonempty set of numbers has a least one: induction over the lines.
LEMMA LeastNatural ==
    ASSUME NEW S, S \subseteq Nat, S # {}
    PROVE  \E m \in S : \A n \in S : m <= n
<1>1. Below = OpToRel(<, Nat)
  BY Zenon DEF Below, OpToRel
<1>2. IsWellFoundedOn(Below, Nat)
  BY <1>1, NatLessThanWellFounded, Zenon
<1>3. PICK m \in S : \A n \in S : ~(<<n, m>> \in Below)
  BY <1>2, WFMin
<1>4. ASSUME NEW n \in S
      PROVE  m <= n
  <2>1. <<n, m>> \in Nat \X Nat /\ <<n, m>> \notin Below
    BY <1>3
  <2>2. QED
    BY <2>1 DEF Below
<1>5. QED
  BY <1>4

Reader == [title: Titles \cup {NoTitle}, channels: Seq(Channel)]

\* Line i is an #EXTINF that no line up to n takes up.
PendingAt(lines, i, n) ==
    /\ lines[i].kind = "extinf"
    /\ \A k \in (i + 1)..n : lines[k].kind \in {"blank", "header", "comment"}

\* Line j is announced by a line before it.
IsAnnounced(lines, j) == \E i \in DOMAIN lines : Announces(lines, i, j)

\* Line i is the first of n lines to announce the stream of line j.
AnnouncesFirst(lines, n, i, j) ==
    /\ Announces(lines, i, j)
    /\ \A l \in 1..n : IsAnnounced(lines, l) /\ lines[l].stream = lines[j].stream => j <= l

\* The channels that the first n lines announce.
AnnouncedIn(lines, n) ==
    {c \in Channel :
       \E i \in DOMAIN lines, j \in 1..n :
         /\ AnnouncesFirst(lines, n, i, j)
         /\ c = [stream |-> lines[j].stream, title |-> lines[i].title]}

\* What the parser holds after n lines: the title that is pending, if any, and
\* the channels announced so far, each stream once.
ReadSoFar(lines, n, s) ==
    /\ s \in Reader
    /\ \A i \in 1..n : PendingAt(lines, i, n) => s.title = lines[i].title
    /\ s.title # NoTitle => \E i \in 1..n : PendingAt(lines, i, n)
    /\ {s.channels[k] : k \in DOMAIN s.channels} = AnnouncedIn(lines, n)
    /\ \A x : x \in Listed(s.channels) <=>
                \E j \in 1..n : IsAnnounced(lines, j) /\ lines[j].stream = x
    /\ \A k, l \in DOMAIN s.channels :
         s.channels[k].stream = s.channels[l].stream => k = l

\* The next line either is announced by what is pending, or announces.
LEMMA NextLine ==
    ASSUME NEW lines \in Seq(Lines), NEW n \in Nat, n + 1 \in 1..Len(lines)
    PROVE  /\ lines[n + 1] \in Lines
           /\ \A i \in DOMAIN lines :
                Announces(lines, i, n + 1) <=>
                    i \in 1..n /\ lines[n + 1].kind = "link" /\ PendingAt(lines, i, n)
           /\ \A i \in 1..(n + 1) :
                PendingAt(lines, i, n + 1) <=>
                    \/ i = n + 1 /\ lines[n + 1].kind = "extinf"
                    \/ /\ i \in 1..n /\ PendingAt(lines, i, n)
                       /\ lines[n + 1].kind \in {"blank", "header", "comment"}
<1>1. lines[n + 1] \in Lines
  OBVIOUS
<1>2. ASSUME NEW i \in DOMAIN lines
      PROVE  Announces(lines, i, n + 1) <=>
                i \in 1..n /\ lines[n + 1].kind = "link" /\ PendingAt(lines, i, n)
  <2>1. (i + 1)..((n + 1) - 1) = (i + 1)..n /\ (i < n + 1 <=> i \in 1..n)
    OBVIOUS
  <2>2. QED
    BY <2>1 DEF Announces, PendingAt
<1>3. ASSUME NEW i \in 1..(n + 1)
      PROVE  PendingAt(lines, i, n + 1) <=>
                \/ i = n + 1 /\ lines[n + 1].kind = "extinf"
                \/ /\ i \in 1..n /\ PendingAt(lines, i, n)
                   /\ lines[n + 1].kind \in {"blank", "header", "comment"}
  <2>1. CASE i = n + 1
    <3>1. (i + 1)..(n + 1) = {} /\ i \notin 1..n
      BY <2>1
    <3>2. QED
      BY <2>1, <3>1 DEF PendingAt
  <2>2. CASE i \in 1..n
    <3>1. (i + 1)..(n + 1) = ((i + 1)..n) \cup {n + 1} /\ i # n + 1
      BY <2>2
    <3>2. QED
      BY <2>2, <3>1 DEF PendingAt
  <2>3. QED
    BY <2>1, <2>2
<1>4. QED
  BY <1>1, <1>2, <1>3

\* A line that no line announces, or whose stream is announced before it, adds
\* no channel.
LEMMA NothingAnnounced ==
    ASSUME NEW lines \in Seq(Lines), NEW n \in Nat, n + 1 \in 1..Len(lines),
           \/ ~IsAnnounced(lines, n + 1)
           \/ \E j \in 1..n : IsAnnounced(lines, j) /\ lines[j].stream = lines[n + 1].stream
    PROVE  AnnouncedIn(lines, n + 1) = AnnouncedIn(lines, n)
<1>1. ASSUME NEW i \in DOMAIN lines, NEW j \in 1..(n + 1),
             AnnouncesFirst(lines, n + 1, i, j)
      PROVE  j \in 1..n /\ AnnouncesFirst(lines, n, i, j)
  <2>1. IsAnnounced(lines, j)
    BY <1>1 DEF AnnouncesFirst, IsAnnounced
  <2>2. j # n + 1
    <3>1. SUFFICES ASSUME j = n + 1 PROVE FALSE
      OBVIOUS
    <3>2. PICK l \in 1..n : IsAnnounced(lines, l) /\ lines[l].stream = lines[j].stream
      BY <2>1, <3>1
    <3>3. l \in 1..(n + 1) /\ ~(j <= l)
      BY <3>1
    <3>4. QED
      BY <1>1, <3>2, <3>3 DEF AnnouncesFirst
  <2>3. j \in 1..n /\ 1..n \subseteq 1..(n + 1)
    BY <2>2
  <2>4. QED
    BY <1>1, <2>3 DEF AnnouncesFirst
<1>2. ASSUME NEW i \in DOMAIN lines, NEW j \in 1..n, AnnouncesFirst(lines, n, i, j)
      PROVE  j \in 1..(n + 1) /\ AnnouncesFirst(lines, n + 1, i, j)
  <2>1. \A l \in 1..(n + 1) : l \in 1..n \/ j <= l
    OBVIOUS
  <2>2. QED
    BY <1>2, <2>1 DEF AnnouncesFirst
<1>3. QED
  BY <1>1, <1>2 DEF AnnouncedIn

\* A line that adds no channel keeps what is known of the channels.
LEMMA SameChannels ==
    ASSUME NEW lines \in Seq(Lines), NEW n \in Nat, n + 1 \in 1..Len(lines),
           NEW s, ReadSoFar(lines, n, s),
           AnnouncedIn(lines, n + 1) = AnnouncedIn(lines, n),
           \/ ~IsAnnounced(lines, n + 1)
           \/ \E j \in 1..n : IsAnnounced(lines, j) /\ lines[j].stream = lines[n + 1].stream,
           NEW r \in Reader, r.channels = s.channels,
           \A i \in 1..(n + 1) : PendingAt(lines, i, n + 1) => r.title = lines[i].title,
           r.title # NoTitle => \E i \in 1..(n + 1) : PendingAt(lines, i, n + 1)
    PROVE  ReadSoFar(lines, n + 1, r)
<1>1. 1..(n + 1) = (1..n) \cup {n + 1}
  OBVIOUS
<1>2. \A x : (\E j \in 1..(n + 1) : IsAnnounced(lines, j) /\ lines[j].stream = x)
               <=> \E j \in 1..n : IsAnnounced(lines, j) /\ lines[j].stream = x
  BY <1>1
<1>3. \A x : x \in Listed(r.channels) <=>
               \E j \in 1..(n + 1) : IsAnnounced(lines, j) /\ lines[j].stream = x
  BY <1>2 DEF ReadSoFar
<1>4. QED
  BY <1>3 DEF ReadSoFar

\* What a sequence with one member more contains.
LEMMA ImageAppended ==
    ASSUME NEW I, NEW last, NEW c, NEW d, DOMAIN c = I, DOMAIN d = I \cup {last},
           \A k \in I : d[k] = c[k]
    PROVE  {d[k] : k \in DOMAIN d} = {c[k] : k \in DOMAIN c} \cup {d[last]}
<1>1. \A x : (\E k \in I \cup {last} : x = d[k]) <=> (\E k \in I : x = c[k]) \/ x = d[last]
  OBVIOUS
<1>2. QED
  BY <1>1

\* Reading a line keeps what is known of the lines before it.
LEMMA ReadLineKeeps ==
    ASSUME NEW lines \in Seq(Lines), NEW n \in Nat, n + 1 \in 1..Len(lines),
           NEW s, ReadSoFar(lines, n, s)
    PROVE  ReadSoFar(lines, n + 1, ReadLine(s, lines[n + 1]))
<1> DEFINE line == lines[n + 1]
           Known == \A x : x \in Listed(s.channels) <=>
                      \E j \in 1..n : IsAnnounced(lines, j) /\ lines[j].stream = x
<1>0. /\ s \in Reader /\ line \in Lines /\ NoTitle \notin Titles
      /\ s.title \in Titles \cup {NoTitle} /\ s.channels \in Seq(Channel)
  BY NextLine, ValidatorAssumption DEF ReadSoFar, Reader
<1>1. PICK r : r = ReadLine(s, line)
  OBVIOUS
<1>2. /\ IsAnnounced(lines, n + 1) <=>
            line.kind = "link" /\ \E i \in 1..n : PendingAt(lines, i, n)
      /\ 1..(n + 1) = (1..n) \cup {n + 1}
  <2>1. 1..n \subseteq DOMAIN lines
    OBVIOUS
  <2>2. QED
    BY <2>1, NextLine DEF IsAnnounced
<1>3. s.title = NoTitle <=> ~\E i \in 1..n : PendingAt(lines, i, n)
  <2>1. \A i \in 1..n : lines[i] \in Lines
    OBVIOUS
  <2>2. \A i \in 1..n : PendingAt(lines, i, n) => lines[i].title \in Titles
    BY <2>1 DEF PendingAt, Lines
  <2>3. QED
    BY <1>0, <2>2 DEF ReadSoFar
<1>4. CASE line.kind = "extinf"
  <2>1. r = [title |-> line.title, channels |-> s.channels] /\ line.title \in Titles
    BY <1>0, <1>1, <1>4 DEF ReadLine, Reader, Lines
  <2>2. \A i \in 1..(n + 1) : PendingAt(lines, i, n + 1) <=> i = n + 1
    BY <1>4, NextLine
  <2>3. ~IsAnnounced(lines, n + 1)
    BY <1>2, <1>4
  <2>4. AnnouncedIn(lines, n + 1) = AnnouncedIn(lines, n)
    BY <2>3, NothingAnnounced
  <2>5. /\ r \in Reader /\ r.channels = s.channels
        /\ \A i \in 1..(n + 1) : PendingAt(lines, i, n + 1) => r.title = lines[i].title
        /\ r.title # NoTitle => \E i \in 1..(n + 1) : PendingAt(lines, i, n + 1)
    BY <1>0, <2>1, <2>2 DEF Reader
  <2>6. QED
    BY <1>1, <2>3, <2>4, <2>5, SameChannels
<1>5. CASE line.kind \in {"blank", "header", "comment"}
  <2>1. r = s
    BY <1>1, <1>5 DEF ReadLine
  <2>2. \A i \in 1..(n + 1) :
          PendingAt(lines, i, n + 1) <=> i \in 1..n /\ PendingAt(lines, i, n)
    BY <1>5, NextLine
  <2>3. ~IsAnnounced(lines, n + 1)
    BY <1>2, <1>5
  <2>4. AnnouncedIn(lines, n + 1) = AnnouncedIn(lines, n)
    BY <2>3, NothingAnnounced
  <2>5. /\ r \in Reader /\ r.channels = s.channels
        /\ \A i \in 1..(n + 1) : PendingAt(lines, i, n + 1) => r.title = lines[i].title
        /\ r.title # NoTitle => \E i \in 1..(n + 1) : PendingAt(lines, i, n + 1)
    <3>1. 1..n \subseteq 1..(n + 1)
      OBVIOUS
    <3>2. QED
      BY <1>0, <2>1, <2>2, <3>1 DEF ReadSoFar
  <2>6. QED
    BY <1>1, <2>3, <2>4, <2>5, SameChannels
<1>6. CASE line.kind = "opaque"
  <2>1. r = [title |-> NoTitle, channels |-> s.channels]
    BY <1>0, <1>1, <1>6 DEF ReadLine, Reader
  <2>2. \A i \in 1..(n + 1) : ~PendingAt(lines, i, n + 1)
    BY <1>6, NextLine
  <2>3. ~IsAnnounced(lines, n + 1)
    BY <1>2, <1>6
  <2>4. AnnouncedIn(lines, n + 1) = AnnouncedIn(lines, n)
    BY <2>3, NothingAnnounced
  <2>5. /\ r \in Reader /\ r.channels = s.channels
        /\ \A i \in 1..(n + 1) : PendingAt(lines, i, n + 1) => r.title = lines[i].title
        /\ r.title # NoTitle => \E i \in 1..(n + 1) : PendingAt(lines, i, n + 1)
    BY <1>0, <2>1, <2>2 DEF Reader
  <2>6. QED
    BY <1>1, <2>3, <2>4, <2>5, SameChannels
<1>7. CASE line.kind = "link" /\ (s.title = NoTitle \/ line.stream \in Listed(s.channels))
  <2>1. r = [title |-> NoTitle, channels |-> s.channels]
    BY <1>0, <1>1, <1>7 DEF ReadLine, Reader
  <2>2. \A i \in 1..(n + 1) : ~PendingAt(lines, i, n + 1)
    BY <1>7, NextLine
  <2>3. \/ ~IsAnnounced(lines, n + 1)
        \/ \E j \in 1..n : IsAnnounced(lines, j) /\ lines[j].stream = line.stream
    BY <1>2, <1>3, <1>7 DEF ReadSoFar
  <2>4. AnnouncedIn(lines, n + 1) = AnnouncedIn(lines, n)
    BY <2>3, NothingAnnounced
  <2>5. /\ r \in Reader /\ r.channels = s.channels
        /\ \A i \in 1..(n + 1) : PendingAt(lines, i, n + 1) => r.title = lines[i].title
        /\ r.title # NoTitle => \E i \in 1..(n + 1) : PendingAt(lines, i, n + 1)
    BY <1>0, <2>1, <2>2 DEF Reader
  <2>6. QED
    BY <1>1, <2>3, <2>4, <2>5, SameChannels
<1>8. CASE line.kind = "link" /\ s.title # NoTitle /\ line.stream \notin Listed(s.channels)
  <2> DEFINE new == [stream |-> line.stream, title |-> s.title]
  <2>1. /\ r = [title |-> NoTitle, channels |-> Append(s.channels, new)]
        /\ new \in Channel /\ s.title \in Titles
    BY <1>0, <1>1, <1>8 DEF ReadLine, Reader, Lines, Channel
  <2>2. \A i \in 1..(n + 1) : ~PendingAt(lines, i, n + 1)
    BY <1>8, NextLine
  <2>3. PICK p \in 1..n : PendingAt(lines, p, n) /\ lines[p].title = s.title
    BY <1>8 DEF ReadSoFar
  <2>4. /\ \A i \in DOMAIN lines :
             Announces(lines, i, n + 1) => lines[i].title = s.title
        /\ p \in DOMAIN lines /\ Announces(lines, p, n + 1) /\ IsAnnounced(lines, n + 1)
    <3>1. p \in DOMAIN lines
      OBVIOUS
    <3>2. QED
      BY <1>8, <2>3, <3>1, NextLine DEF ReadSoFar, IsAnnounced
  <2>5. \A l \in 1..n : IsAnnounced(lines, l) => lines[l].stream # line.stream
    BY <1>8 DEF ReadSoFar
  <2>6. AnnouncedIn(lines, n + 1) = AnnouncedIn(lines, n) \cup {new}
    <3>1. ASSUME NEW i \in DOMAIN lines, NEW j \in 1..n
          PROVE  AnnouncesFirst(lines, n + 1, i, j) <=> AnnouncesFirst(lines, n, i, j)
      BY <1>2 DEF AnnouncesFirst
    <3>2. ASSUME NEW i \in DOMAIN lines
          PROVE  AnnouncesFirst(lines, n + 1, i, n + 1) <=> Announces(lines, i, n + 1)
      BY <1>2, <2>5 DEF AnnouncesFirst
    <3>3. ASSUME NEW c \in AnnouncedIn(lines, n + 1)
          PROVE  c \in AnnouncedIn(lines, n) \cup {new}
      <4>1. PICK i \in DOMAIN lines, j \in 1..(n + 1) :
              /\ AnnouncesFirst(lines, n + 1, i, j) /\ c \in Channel
              /\ c = [stream |-> lines[j].stream, title |-> lines[i].title]
        BY DEF AnnouncedIn
      <4>2. CASE j = n + 1
        BY <2>4, <3>2, <4>1, <4>2
      <4>3. CASE j \in 1..n
        BY <3>1, <4>1, <4>3 DEF AnnouncedIn
      <4>4. QED
        BY <4>2, <4>3
    <3>4. AnnouncedIn(lines, n) \subseteq AnnouncedIn(lines, n + 1)
      BY <1>2, <3>1 DEF AnnouncedIn
    <3>5. new \in AnnouncedIn(lines, n + 1)
      BY <1>2, <2>1, <2>3, <2>4, <3>2 DEF AnnouncedIn
    <3>6. QED
      BY <3>3, <3>4, <3>5
  <2>7. \A x : (\E j \in 1..(n + 1) : IsAnnounced(lines, j) /\ lines[j].stream = x)
                 <=> \/ \E j \in 1..n : IsAnnounced(lines, j) /\ lines[j].stream = x
                     \/ x = line.stream
    BY <1>2, <2>4
  <2> HIDE DEF new
  <2>8. new.stream = line.stream
    BY DEF new
  <2>9. PICK N \in Nat :
          /\ N = Len(s.channels) /\ DOMAIN s.channels = 1..N
          /\ r.channels \in Seq(Channel) /\ DOMAIN r.channels = (1..N) \cup {N + 1}
          /\ \A k \in 1..N : r.channels[k] = s.channels[k] /\ k # N + 1
          /\ r.channels[N + 1] = new
    <3>1. PICK N \in Nat : N = Len(s.channels)
      BY <1>0
    <3>2. /\ DOMAIN s.channels = 1..N /\ r.channels \in Seq(Channel)
          /\ Len(r.channels) = N + 1 /\ DOMAIN r.channels = 1..(N + 1)
      BY <1>0, <2>1, <3>1
    <3>3. /\ \A k \in 1..N : r.channels[k] = s.channels[k] /\ k # N + 1
          /\ r.channels[N + 1] = new
      BY <1>0, <2>1, <3>1
    <3>4. 1..(N + 1) = (1..N) \cup {N + 1}
      BY <3>1
    <3>5. QED
      BY <3>1, <3>2, <3>3, <3>4
  <2>10. {r.channels[k] : k \in DOMAIN r.channels} = AnnouncedIn(lines, n + 1)
    <3>1. {r.channels[k] : k \in DOMAIN r.channels}
             = {s.channels[k] : k \in DOMAIN s.channels} \cup {new}
      <4>1. PICK c, d : c = s.channels /\ d = r.channels
        OBVIOUS
      <4>2. PICK I : I = 1..N
        OBVIOUS
      <4>3. /\ DOMAIN c = I /\ DOMAIN d = I \cup {N + 1} /\ d[N + 1] = new
            /\ \A k \in I : d[k] = c[k]
        BY <2>9, <4>1, <4>2
      <4>4. {d[k] : k \in DOMAIN d} = {c[k] : k \in DOMAIN c} \cup {d[N + 1]}
        BY <4>3, ImageAppended
      <4>5. QED
        BY <4>1, <4>3, <4>4
    <3>2. QED
      BY <2>6, <3>1 DEF ReadSoFar
  <2>11. \A x : x \in Listed(r.channels) <=> x \in Listed(s.channels) \/ x = line.stream
    BY <2>8, <2>9 DEF Listed
  <2>12. \A k, l \in DOMAIN r.channels :
           r.channels[k].stream = r.channels[l].stream => k = l
    <3>1. \A k \in 1..N : r.channels[k].stream # line.stream
      BY <1>8, <2>9 DEF Listed
    <3>2. QED
      BY <2>8, <2>9, <3>1 DEF ReadSoFar
  <2>13. r.title = NoTitle /\ r \in Reader
    BY <2>1, <2>9 DEF Reader
  <2>14. \A x : x \in Listed(r.channels) <=>
                  \E j \in 1..(n + 1) : IsAnnounced(lines, j) /\ lines[j].stream = x
    BY <2>7, <2>11 DEF ReadSoFar
  <2>15. ReadSoFar(lines, n + 1, r)
    BY <2>2, <2>10, <2>12, <2>13, <2>14 DEF ReadSoFar
  <2>16. QED
    BY <1>1, <2>15
<1>9. QED
  BY <1>0, <1>4, <1>5, <1>6, <1>7, <1>8 DEF Lines

\* What the parser holds after each of the first n lines.
Reads(lines, n, f) ==
    f = [m \in 0..n |-> IF m = 0 THEN Start ELSE ReadLine(f[m - 1], lines[m])]

\* There is such a function, so that the recursion in ParseM3u defines one.
LEMMA ReadingsExist ==
    ASSUME NEW lines \in Seq(Lines), NEW n \in Nat
    PROVE  \E f : Reads(lines, n, f)
<1> DEFINE Unread == {k \in Nat : ~\E f : Reads(lines, k, f)}
<1>1. 0 \notin Unread
  <2>1. PICK f : f = [m \in 0..0 |-> Start]
    OBVIOUS
  <2>2. f = [m \in 0..0 |-> IF m = 0 THEN Start ELSE ReadLine(f[m - 1], lines[m])]
    BY <2>1
  <2>3. QED
    BY <2>2 DEF Reads
<1>2. ASSUME NEW k \in Nat, NEW f, Reads(lines, k, f)
      PROVE  \E g : Reads(lines, k + 1, g)
  <2>1. PICK g : g = [m \in 0..(k + 1) |->
                        IF m = k + 1 THEN ReadLine(f[k], lines[k + 1]) ELSE f[m]]
    OBVIOUS
  <2>2. \A m \in 0..k : f[m] = IF m = 0 THEN Start ELSE ReadLine(f[m - 1], lines[m])
    BY <1>2, Zenon DEF Reads
  <2>3. ASSUME NEW m \in 0..(k + 1)
        PROVE  g[m] = IF m = 0 THEN Start ELSE ReadLine(g[m - 1], lines[m])
    <3>1. CASE m = k + 1
      <4>1. k \in 0..(k + 1) /\ k # k + 1 /\ m # 0 /\ m - 1 = k
        BY <3>1
      <4>2. QED
        BY <2>1, <3>1, <4>1
    <3>2. CASE m \in 1..k
      <4>1. /\ m - 1 \in 0..(k + 1) /\ m - 1 # k + 1 /\ m # k + 1
            /\ m \in 0..k /\ m # 0
        BY <3>2
      <4>2. QED
        BY <2>1, <2>2, <4>1
    <3>3. CASE m = 0
      BY <2>1, <2>2, <3>3
    <3>4. QED
      BY <3>1, <3>2, <3>3
  <2>4. g = [m \in 0..(k + 1) |->
               IF m = 0 THEN Start ELSE ReadLine(g[m - 1], lines[m])]
    <3>1. g = [m \in 0..(k + 1) |-> g[m]]
      BY <2>1
    <3>2. QED
      BY <2>3, <3>1
  <2>5. QED
    BY <2>4 DEF Reads
<1>3. CASE Unread # {}
  <2>1. PICK k \in Unread : \A m \in Unread : k <= m
    BY <1>3, LeastNatural
  <2>2. PICK j \in Nat : k = j + 1 /\ j \notin Unread
    <3>1. k \in Nat \ {0}
      BY <1>1
    <3>2. k - 1 \in Nat /\ k = (k - 1) + 1 /\ k - 1 \notin Unread
      BY <2>1, <3>1
    <3>3. QED
      BY <3>2
  <2>3. \E g : Reads(lines, j + 1, g)
    BY <1>2, <2>2
  <2>4. QED
    BY <2>2, <2>3
<1>4. CASE Unread = {}
  BY <1>4
<1>5. QED
  BY <1>3, <1>4

\* What the parser makes of a playlist.
LEMMA Parsed ==
    ASSUME NEW lines \in Seq(Lines)
    PROVE  \E s : ReadSoFar(lines, Len(lines), s) /\ ParseM3u(lines) = s.channels
<1> DEFINE all == CHOOSE f : Reads(lines, Len(lines), f)
<1>1. Len(lines) \in Nat
  OBVIOUS
<1>2. PICK read : read = all /\ Reads(lines, Len(lines), read)
  BY <1>1, ReadingsExist
<1>3. \A m \in 0..Len(lines) :
        read[m] = IF m = 0 THEN Start ELSE ReadLine(read[m - 1], lines[m])
  BY <1>2, Zenon DEF Reads
<1>4. ParseM3u(lines) = read[Len(lines)].channels
  BY <1>2 DEF ParseM3u, Reads
<1> DEFINE Wrong == {m \in 0..Len(lines) : ~ReadSoFar(lines, m, read[m])}
<1>5. 0 \notin Wrong
  <2>1. Start \in Reader /\ Start.title = NoTitle /\ Start.channels = << >>
    BY DEF Start, Reader
  <2>2. AnnouncedIn(lines, 0) = {} /\ Listed(<< >>) = {}
    BY DEF AnnouncedIn, Listed
  <2>3. ReadSoFar(lines, 0, Start)
    BY <2>1, <2>2 DEF ReadSoFar
  <2>4. QED
    BY <1>1, <1>3, <2>3
<1>6. ASSUME NEW m \in Nat, m + 1 \in 1..Len(lines), ReadSoFar(lines, m, read[m])
      PROVE  ReadSoFar(lines, m + 1, read[m + 1])
  <2>1. m + 1 \in 0..Len(lines) /\ m + 1 # 0 /\ (m + 1) - 1 = m
    BY <1>6
  <2>2. read[m + 1] = ReadLine(read[m], lines[m + 1])
    BY <1>3, <2>1
  <2>3. QED
    BY <1>6, <2>2, ReadLineKeeps
<1>7. CASE Wrong # {}
  <2>1. Wrong \subseteq Nat
    OBVIOUS
  <2>2. PICK k \in Wrong : \A m \in Wrong : k <= m
    BY <1>7, <2>1, LeastNatural
  <2>3. k \in 1..Len(lines)
    BY <1>5
  <2>4. /\ k - 1 \in Nat /\ (k - 1) + 1 = k /\ k - 1 \in 0..Len(lines)
        /\ ~(k <= k - 1)
    BY <1>1, <2>3
  <2>5. k - 1 \notin Wrong
    BY <2>2, <2>4
  <2>6. ReadSoFar(lines, k, read[k])
    BY <1>6, <2>3, <2>4, <2>5
  <2>7. QED
    BY <2>2, <2>6
<1>8. CASE Wrong = {}
  BY <1>1, <1>4, <1>8
<1>9. QED
  BY <1>7, <1>8

\* A playlist parses to channels, each announced, each stream once.
LEMMA ParsedChannels ==
    ASSUME NEW lines \in Seq(Lines)
    PROVE  /\ ParseM3u(lines) \in Seq(Channel)
           /\ {ParseM3u(lines)[i] : i \in DOMAIN ParseM3u(lines)} = Announced(lines)
           /\ Len(ParseM3u(lines)) = Cardinality(Listed(ParseM3u(lines)))
<1>1. PICK s : ReadSoFar(lines, Len(lines), s) /\ ParseM3u(lines) = s.channels
  BY Parsed
<1>2. PICK channels : channels = ParseM3u(lines)
  OBVIOUS
<1>3. channels \in Seq(Channel)
  BY <1>1, <1>2 DEF ReadSoFar, Reader
<1>4. AnnouncedIn(lines, Len(lines)) = Announced(lines)
  <2>1. DOMAIN lines = 1..Len(lines)
    OBVIOUS
  <2>2. \A c \in Channel, i, j \in DOMAIN lines :
          c = [stream |-> lines[j].stream, title |-> lines[i].title] =>
            (AnnouncesFirst(lines, Len(lines), i, j) <=>
               /\ Announces(lines, i, j)
               /\ \A k, l \in DOMAIN lines :
                    Announces(lines, k, l) /\ lines[l].stream = c.stream => j <= l)
    BY <2>1 DEF AnnouncesFirst, IsAnnounced
  <2>3. QED
    BY <2>1, <2>2 DEF AnnouncedIn, Announced
<1>5. Len(channels) = Cardinality(Listed(channels))
  <2> DEFINE stream == [k \in 1..Len(channels) |-> channels[k].stream]
  <2>1. Len(channels) \in Nat /\ DOMAIN channels = 1..Len(channels)
    BY <1>3
  <2>2. \A k, l \in 1..Len(channels) : stream[k] = stream[l] => k = l
    BY <1>1, <1>2, <2>1 DEF ReadSoFar
  <2>3. stream \in [1..Len(channels) -> Listed(channels)]
    BY <2>1 DEF Listed
  <2>4. \A x \in Listed(channels) : \E k \in 1..Len(channels) : stream[k] = x
    BY <2>1 DEF Listed
  <2> HIDE DEF stream
  <2>5. stream \in Bijection(1..Len(channels), Listed(channels))
    BY <2>2, <2>3, <2>4, Fun_IsBij
  <2>6. ExistsBijection(1..Len(channels), Listed(channels))
    BY <2>5 DEF ExistsBijection
  <2>7. QED
    BY <2>1, <2>6, FS_CountingElements
<1>6. QED
  BY <1>1, <1>2, <1>3, <1>4, <1>5 DEF ReadSoFar

-----------------------------------------------------------------------------
(* The inductive invariant.                                                *)

\* What the walk holds is well typed, and a list is only asked for where
\* there is room to open it.
WalkTypes ==
    /\ zone \in [Refs -> Records \cup {NoRecord}]
    /\ pc \in {"idle", "ask", "walk", "download", "done"}
    /\ kind = "mylinkpaste" => pc # "download"
    /\ pc \in {"ask", "walk"} => kind = "mylinkpaste"
    /\ asked \in Refs /\ resolver \in 1..(Resolvers + 1) /\ queries \in Nat
    /\ visited \subseteq Refs
    /\ top \in 0..(MaxDepth + 1)
    /\ pc = "ask" => top <= MaxDepth
    /\ frames \in [1..(MaxDepth + 1) -> Frame]

\* While a reference is asked for, the resolvers from the current one on are
\* left of those that its being met allows.
QueriesLeft ==
    /\ queries <= Resolvers * Cardinality(visited)
    /\ pc = "ask" =>
         queries + Resolvers + 1 <= Resolvers * Cardinality(visited) + resolver

\* The streams an open record will still collect by itself.
Pending(f) == UNION {i.links : i \in {j \in f.rest : j.ref = NoRef}}

\* What the root lists is collected or pending while it is open, and listed by
\* the result.
RootListed ==
    /\ pc = "ask" /\ top = 0 => root = NoRecord
    /\ pc \in {"ask", "walk"} /\ top > 0 =>
         LinksIn(root) \subseteq frames[1].found \cup Pending(frames[1])
    /\ pc = "done" /\ result.status = "valid" => LinksIn(root) \subseteq result.streams

PasteListed == kind = "mylinkpaste" => RootListed

WalkInv == WalkTypes /\ QueriesLeft /\ PasteListed /\ HashMatchesList

-----------------------------------------------------------------------------
(* Facts about the constants.                                              *)

\* The set of references met is finite, and its product with the number of
\* resolvers is a number.
LEMMA VisitedFinite ==
    ASSUME WalkTypes
    PROVE  /\ IsFiniteSet(visited) /\ Cardinality(visited) \in Nat
           /\ Cardinality(visited) <= Cardinality(Refs)
BY MylinkpasteAssumption, FS_Subset, FS_CardinalityType DEF WalkTypes

\* Meeting a new reference allows a query of each resolver.
LEMMA OneMore ==
    ASSUME WalkTypes, NEW ref \in Refs \ visited
    PROVE  Resolvers * Cardinality(visited \cup {ref})
             = Resolvers * Cardinality(visited) + Resolvers
<1>1. Cardinality(visited \cup {ref}) = Cardinality(visited) + 1
  BY VisitedFinite, FS_AddElement
<1>2. PICK c \in Nat : c = Cardinality(visited)
  BY VisitedFinite
<1>3. Resolvers * (c + 1) = Resolvers * c + Resolvers
  <2>1. Resolvers \in {0, 1, 2}
    BY MylinkpasteAssumption
  <2>2. QED
    BY <1>2, <2>1
<1>4. QED
  BY <1>1, <1>2, <1>3

\* What a record holds is a set of items, and what it lists is what will be
\* collected of them; a record that is missing or unreadable lists nothing.
LEMMA RecordItems ==
    ASSUME NEW rec \in Records \cup {NoRecord}
    PROVE  /\ ItemsOf(rec) \subseteq Item
           /\ LinksIn(rec) = Pending([rest |-> ItemsOf(rec), found |-> {}])
           /\ rec \in {NoRecord, Garbage} => LinksIn(rec) = {}
<1>1. ItemsOf(rec) \subseteq Item
  BY MylinkpasteAssumption DEF ItemsOf
<1>2. LinksIn(rec) = Pending([rest |-> ItemsOf(rec), found |-> {}])
  BY DEF LinksIn, Pending
<1>3. rec \in {NoRecord, Garbage} => LinksIn(rec) = {}
  BY DEF LinksIn, ItemsOf
<1>4. QED
  BY <1>1, <1>2, <1>3

-----------------------------------------------------------------------------
(* The steps that ask for a record.                                        *)

\* What becomes of a record: the walk goes on or ends, nothing is asked, and
\* what the root lists is kept.
LEMMA ReceiveStep ==
    ASSUME WalkTypes, RootListed, pc = "ask",
           NEW txt \in Records \cup {NoRecord}, Receive(txt)
    PROVE  /\ pc' \in {"walk", "done"}
           /\ UNCHANGED visited
           /\ top' \in 0..(MaxDepth + 1)
           /\ frames' \in [1..(MaxDepth + 1) -> Frame]
           /\ RootListed'
<1> USE MylinkpasteAssumption
<1>0. /\ top \in 0..MaxDepth /\ top + 1 \in 1..(MaxDepth + 1)
      /\ frames \in [1..(MaxDepth + 1) -> Frame]
  BY DEF WalkTypes
<1>1. CASE txt = NoRecord /\ top > 0 /\ pc' = "walk" /\ UNCHANGED <<walk, result>>
  BY <1>0, <1>1 DEF walk, RootListed
<1>2. CASE UNCHANGED walk /\ End("invalid", {})
  BY <1>0, <1>2 DEF walk, End, RootListed
<1>3. CASE End("notModified", {}) /\ UNCHANGED <<visited, top, frames>>
  BY <1>0, <1>3 DEF End, RootListed
<1>4. CASE /\ txt \notin {NoRecord, Garbage}
           /\ pc' = "walk"
           /\ top' = top + 1
           /\ frames' = [frames EXCEPT ![top + 1] = [rest |-> ItemsOf(txt), found |-> {}]]
           /\ root' = IF top = 0 THEN txt ELSE root
           /\ UNCHANGED <<visited, result>>
  <2> DEFINE f == [rest |-> ItemsOf(txt), found |-> {}]
  <2>1. f \in Frame /\ LinksIn(txt) = Pending(f)
    BY <1>4, RecordItems DEF Frame
  <2>2. frames' \in [1..(MaxDepth + 1) -> Frame]
    BY <1>0, <1>4, <2>1
  <2>3. CASE top = 0
    <3>1. frames'[1] = f /\ root' = txt
      BY <1>0, <1>4, <2>3
    <3>2. LinksIn(root') \subseteq frames'[1].found \cup Pending(frames'[1])
      BY <2>1, <3>1
    <3>3. RootListed'
      <4> HIDE DEF f
      <4>1. pc' = "walk" /\ top' = 1
        BY <1>4, <2>3
      <4>2. QED
        BY <3>2, <4>1 DEF RootListed
    <3>4. QED
      BY <1>0, <1>4, <2>2, <3>3
  <2>4. CASE top > 0
    <3>1. frames'[1] = frames[1] /\ root' = root
      BY <1>0, <1>4, <2>4
    <3>2. QED
      BY <1>0, <1>4, <2>2, <2>4, <3>1 DEF RootListed
  <2>5. QED
    BY <1>0, <2>3, <2>4
<1>5. QED
  BY <1>1, <1>2, <1>3, <1>4 DEF Receive

\* The walk begins: one reference is met, and nothing is asked yet.
LEMMA BeginPasteStep ==
    ASSUME WalkInv, BeginPaste
    PROVE  WalkInv'
<1> USE MylinkpasteAssumption
<1>1. /\ kind = "mylinkpaste" /\ pc' = "ask" /\ asked' = Root /\ resolver' = 1 /\ visited' = {Root}
      /\ root' = NoRecord /\ top' = 0 /\ frames' = Closed /\ queries' = 0
      /\ UNCHANGED <<zone, kind, saved>>
  BY DEF BeginPaste, BeginWalk, Ask
<1>2. Closed \in [1..(MaxDepth + 1) -> Frame]
  BY DEF Closed, NoFrame, Frame
<1>3. WalkTypes'
  BY <1>1, <1>2 DEF WalkInv, WalkTypes
<1>4. Cardinality({Root}) = 1
  BY FS_Singleton
<1>5. QueriesLeft'
  BY <1>1, <1>4 DEF QueriesLeft
<1>6. PasteListed' /\ HashMatchesList'
  BY <1>1 DEF WalkInv, PasteListed, RootListed, HashMatchesList
<1>7. QED
  BY <1>3, <1>5, <1>6 DEF WalkInv

\* A resolver that gives no answer uses up one of the queries left.
LEMMA NoAnswerStep ==
    ASSUME WalkInv, UNCHANGED <<kind, saved>>, ResolverRaises \/ ResolverRefuses
    PROVE  WalkInv'
<1> USE MylinkpasteAssumption
<1>1. /\ pc = "ask" /\ resolver <= Resolvers
      /\ resolver' = resolver + 1 /\ queries' = queries + 1
      /\ UNCHANGED <<zone, pc, asked, visited, root, top, frames, result>>
  BY DEF ResolverRaises, ResolverRefuses, Asking, walk
<1>2. WalkTypes'
  BY <1>1 DEF WalkInv, WalkTypes
<1>3. PICK room \in Nat : room = Resolvers * Cardinality(visited)
  BY VisitedFinite DEF WalkInv
<1>4. QueriesLeft'
  BY <1>1, <1>3 DEF WalkInv, WalkTypes, QueriesLeft
<1>5. PasteListed' /\ HashMatchesList'
  BY <1>1 DEF WalkInv, PasteListed, RootListed, HashMatchesList
<1>6. QED
  BY <1>2, <1>4, <1>5 DEF WalkInv

\* An answer is final: no further query is made for the reference.
LEMMA AnswerStep ==
    ASSUME WalkInv, UNCHANGED <<kind, saved>>,
           ResolverAnswers \/ ResolversExhausted
    PROVE  WalkInv'
<1> USE MylinkpasteAssumption
<1>1. /\ pc = "ask" /\ kind = "mylinkpaste" /\ UNCHANGED <<zone, asked, resolver>>
      /\ zone[asked] \in Records \cup {NoRecord}
  BY DEF WalkInv, WalkTypes, ResolverAnswers, ResolversExhausted, Asking, query
<1>2. WalkTypes /\ RootListed
  BY <1>1 DEF WalkInv, PasteListed
<1>3. \/ \E txt \in Records \cup {NoRecord} : Receive(txt)
      \/ End("unreachable", {}) /\ UNCHANGED walk
  BY <1>1 DEF ResolverAnswers, ResolversExhausted
<1>4. /\ pc' \in {"walk", "done"}
      /\ UNCHANGED visited
      /\ top' \in 0..(MaxDepth + 1)
      /\ frames' \in [1..(MaxDepth + 1) -> Frame]
      /\ RootListed'
  <2>1. CASE \E txt \in Records \cup {NoRecord} : Receive(txt)
    BY <1>1, <1>2, <2>1, ReceiveStep
  <2>2. CASE End("unreachable", {}) /\ UNCHANGED walk
    BY <1>2, <2>2 DEF End, walk, RootListed, WalkTypes
  <2>3. QED
    BY <1>3, <2>1, <2>2
<1>5. \/ queries' = queries
      \/ queries' = queries + 1 /\ resolver <= Resolvers
  BY DEF ResolverAnswers, ResolversExhausted, Asking, history
<1>6. WalkTypes'
  BY <1>1, <1>2, <1>4, <1>5 DEF WalkTypes
<1>7. PICK room \in Nat : room = Resolvers * Cardinality(visited)
  BY <1>2, VisitedFinite
<1>8. QueriesLeft'
  BY <1>1, <1>4, <1>5, <1>7 DEF WalkInv, WalkTypes, QueriesLeft
<1>9. QED
  BY <1>4, <1>6, <1>8 DEF WalkInv, PasteListed, HashMatchesList

-----------------------------------------------------------------------------
(* The steps inside an open record.                                        *)

\* Collecting the streams of an item moves them from pending to found.
LEMMA TakeLinksStep ==
    ASSUME WalkInv, UNCHANGED <<kind, saved>>, NEW item \in Inner.rest,
           TakeLinks(item)
    PROVE  WalkInv'
<1> USE MylinkpasteAssumption
<1> DEFINE f == [rest |-> Inner.rest \ {item}, found |-> Inner.found \cup item.links]
<1>1. /\ top \in 1..(MaxDepth + 1) /\ pc = "walk" /\ item.ref = NoRef
      /\ frames \in [1..(MaxDepth + 1) -> Frame]
      /\ frames' = [frames EXCEPT ![top] = f]
      /\ UNCHANGED <<zone, pc, asked, resolver, queries, visited, root, top, result>>
  BY DEF WalkInv, WalkTypes, TakeLinks, Walking, Inner, query, history
<1>2. Inner \in Frame /\ item \in Item
  BY <1>1 DEF Inner, Frame
<1>3. f \in Frame
  BY <1>2 DEF Frame, Item
<1>4. WalkTypes'
  BY <1>1, <1>3 DEF WalkInv, WalkTypes
<1>5. Inner.found \cup Pending(Inner) = f.found \cup Pending(f)
  BY <1>1 DEF Pending
<1>6. frames'[1].found \cup Pending(frames'[1]) = frames[1].found \cup Pending(frames[1])
  <2>1. CASE top = 1
    BY <1>1, <1>5, <2>1 DEF Inner
  <2>2. CASE top # 1
    BY <1>1, <2>2
  <2>3. QED
    BY <2>1, <2>2
<1>7. PasteListed'
  BY <1>1, <1>6 DEF WalkInv, PasteListed, RootListed
<1>8. QueriesLeft' /\ HashMatchesList'
  BY <1>1 DEF WalkInv, QueriesLeft, HashMatchesList
<1>9. QED
  BY <1>4, <1>7, <1>8 DEF WalkInv

\* A category asks for its list only if that was never met.
LEMMA FollowStep ==
    ASSUME WalkInv, UNCHANGED <<kind, saved>>, NEW item \in Inner.rest,
           Follow(item)
    PROVE  WalkInv'
<1> USE MylinkpasteAssumption
<1> DEFINE f == [rest |-> Inner.rest \ {item}, found |-> Inner.found]
<1>1. /\ top \in 1..(MaxDepth + 1) /\ pc = "walk" /\ item.ref # NoRef
      /\ frames \in [1..(MaxDepth + 1) -> Frame]
      /\ UNCHANGED <<zone, queries, root, top, result>>
  BY DEF WalkInv, WalkTypes, Follow, Walking, Inner, history
<1>0. frames' = [frames EXCEPT ![top] = f]
  BY DEF Follow, Inner
<1>2. Inner \in Frame /\ item \in Item
  BY <1>1 DEF Inner, Frame
<1>3. f \in Frame /\ f.found = Inner.found /\ f.rest = Inner.rest \ {item}
  BY <1>2 DEF Frame
<1>4. Pending(f) = Pending(Inner)
  BY <1>1, <1>3 DEF Pending
<1> HIDE DEF f
<1>5. frames'[1].found \cup Pending(frames'[1]) = frames[1].found \cup Pending(frames[1])
  <2>1. CASE top = 1
    BY <1>0, <1>1, <1>3, <1>4, <2>1 DEF Inner
  <2>2. CASE top # 1
    BY <1>0, <1>1, <2>2
  <2>3. QED
    BY <2>1, <2>2
<1>6. \/ UNCHANGED <<pc, asked, resolver, visited>>
      \/ /\ item.ref \in Refs \ visited /\ top <= MaxDepth
         /\ pc' = "ask" /\ asked' = item.ref /\ resolver' = 1
         /\ visited' = visited \cup {item.ref}
  BY <1>1, <1>2 DEF Follow, Ask, query, Item
<1>7. WalkTypes'
  BY <1>0, <1>1, <1>3, <1>6 DEF WalkInv, WalkTypes
<1>8. PasteListed' /\ HashMatchesList'
  <2>1. pc' \in {"ask", "walk"} /\ top' > 0
    BY <1>1, <1>6
  <2>2. UNCHANGED <<root, result, kind, saved>>
    BY <1>1
  <2>3. RootListed => RootListed'
    BY <1>1, <1>5, <2>1, <2>2 DEF RootListed
  <2>4. QED
    BY <2>2, <2>3 DEF WalkInv, PasteListed, HashMatchesList
<1>9. PICK room \in Nat : room = Resolvers * Cardinality(visited)
  BY VisitedFinite DEF WalkInv
<1>10. QueriesLeft'
  <2>1. CASE UNCHANGED <<pc, asked, resolver, visited>>
    BY <1>1, <2>1 DEF WalkInv, QueriesLeft
  <2>2. CASE /\ item.ref \in Refs \ visited
             /\ resolver' = 1 /\ visited' = visited \cup {item.ref}
    <3>1. Resolvers * Cardinality(visited') = room + Resolvers
      BY <1>9, <2>2, OneMore DEF WalkInv
    <3>2. queries <= room /\ queries \in Nat /\ queries' = queries
      BY <1>1, <1>9 DEF WalkInv, WalkTypes, QueriesLeft
    <3>3. QED
      BY <2>2, <3>1, <3>2 DEF QueriesLeft
  <2>3. QED
    BY <1>6, <2>1, <2>2
<1>11. QED
  BY <1>7, <1>8, <1>10 DEF WalkInv

\* A list that closes hands its streams to its parent, the root perhaps.
LEMMA CloseStep ==
    ASSUME WalkInv, UNCHANGED <<kind, saved>>, Close
    PROVE  WalkInv'
<1> USE MylinkpasteAssumption
<1> DEFINE f == [rest |-> frames[top - 1].rest,
                 found |-> frames[top - 1].found \cup Inner.found]
<1>1. /\ top \in 2..(MaxDepth + 1) /\ top - 1 \in 1..MaxDepth /\ pc = "walk"
      /\ frames \in [1..(MaxDepth + 1) -> Frame] /\ top' = top - 1
      /\ UNCHANGED <<zone, pc, asked, resolver, queries, visited, root, result>>
  BY DEF WalkInv, WalkTypes, Close, Walking, query, history
<1>2. frames' = [frames EXCEPT ![top] = NoFrame, ![top - 1] = f]
  BY <1>1 DEF Close
<1>3. f \in Frame /\ NoFrame \in Frame
  BY <1>1 DEF Inner, Frame, NoFrame
<1>4. frames[top - 1].found \cup Pending(frames[top - 1]) \subseteq f.found \cup Pending(f)
  BY DEF Pending
<1> HIDE DEF f
<1>5. frames' \in [1..(MaxDepth + 1) -> Frame]
  BY <1>1, <1>2, <1>3
<1>6. WalkTypes'
  BY <1>1, <1>5 DEF WalkInv, WalkTypes
<1>7. frames[1].found \cup Pending(frames[1])
        \subseteq frames'[1].found \cup Pending(frames'[1])
  <2>1. CASE top = 2
    <3>1. frames'[1] = f
      BY <1>1, <1>2, <2>1
    <3>2. QED
      BY <1>1, <1>4, <2>1, <3>1
  <2>2. CASE top # 2
    BY <1>1, <1>2, <2>2
  <2>3. QED
    BY <2>1, <2>2
<1>8. PasteListed'
  BY <1>1, <1>7 DEF WalkInv, PasteListed, RootListed
<1>9. QueriesLeft' /\ HashMatchesList'
  BY <1>1 DEF WalkInv, QueriesLeft, HashMatchesList
<1>10. QED
  BY <1>6, <1>8, <1>9 DEF WalkInv

\* A valid result lists what the root record lists: nothing is pending.
LEMMA CloseRootStep ==
    ASSUME WalkInv, UNCHANGED <<kind, saved>>, CloseRoot
    PROVE  WalkInv'
<1>1. /\ top = 1 /\ pc = "walk" /\ pc' = "done" /\ Inner.rest = {}
      /\ UNCHANGED <<zone, asked, resolver, queries, visited, top, frames, root>>
  BY DEF CloseRoot, Walking, End, query, walk, history
<1>2. WalkTypes' /\ QueriesLeft' /\ HashMatchesList'
  BY <1>1 DEF WalkInv, WalkTypes, QueriesLeft, HashMatchesList
<1>3. Pending(Inner) = {}
  BY <1>1 DEF Pending
<1>4. result'.status = "valid" => result'.streams = frames[1].found
  BY <1>1 DEF CloseRoot, End, Inner
<1>5. PasteListed'
  BY <1>1, <1>3, <1>4 DEF WalkInv, PasteListed, RootListed, Inner
<1>6. QED
  BY <1>2, <1>5 DEF WalkInv

-----------------------------------------------------------------------------
(* The steps outside the walk.                                             *)

\* A playlist makes no query, and has no record.
LEMMA PlaylistStep ==
    ASSUME WalkInv, BeginDownload \/ DownloadFails \/ DownloadRaises \/ Download
    PROVE  WalkInv'
<1>1. /\ kind # "mylinkpaste" /\ pc' \in {"download", "idle", "done"}
      /\ UNCHANGED <<zone, asked, resolver, queries, visited, top, frames, kind,
                     saved>>
  BY DEF WalkInv, WalkTypes, BeginDownload, DownloadFails, DownloadRaises, Download, End, query,
     walk, history
<1>2. QED
  BY <1>1 DEF WalkInv, WalkTypes, QueriesLeft, PasteListed, HashMatchesList

\* A snapshot takes the hash of the root its list came from, or none.
LEMMA KeepStep ==
    ASSUME WalkInv, Keep
    PROVE  WalkInv'
<1>1. /\ pc = "done" /\ pc' = "idle"
      /\ UNCHANGED <<zone, asked, resolver, queries, visited, top, frames, kind>>
  BY DEF Keep, query, walk, history
<1>2. WalkTypes' /\ QueriesLeft' /\ PasteListed'
  BY <1>1 DEF WalkInv, WalkTypes, QueriesLeft, PasteListed, RootListed
<1>3. CASE result.status # "valid"
  BY <1>1, <1>2, <1>3 DEF WalkInv, Keep, HashMatchesList
<1>4. CASE result.status = "valid"
  <2>1. PICK hash \in {Content, NoContent} :
          saved' = [hash |-> hash, streams |-> result.streams]
    BY <1>4 DEF Keep
  <2>2. kind = "mylinkpaste" => LinksIn(root) \subseteq result.streams
    BY <1>1, <1>4 DEF WalkInv, PasteListed, RootListed
  <2>3. HashMatchesList'
    BY <1>1, <2>1, <2>2 DEF HashMatchesList, Content
  <2>4. QED
    BY <1>2, <2>3 DEF WalkInv
<1>5. QED
  BY <1>3, <1>4

\* An edit of the zone changes nothing of the walk.
LEMMA PublishStep ==
    ASSUME WalkInv, Publish, UNCHANGED <<kind, saved>>
    PROVE  WalkInv'
<1>1. /\ zone' \in [Refs -> Records \cup {NoRecord}]
      /\ UNCHANGED <<pc, asked, resolver, queries, visited, top, frames, root, result>>
  BY DEF WalkInv, WalkTypes, Publish, query, walk, history
<1>2. QED
  BY <1>1 DEF WalkInv, WalkTypes, QueriesLeft, PasteListed, RootListed, HashMatchesList

-----------------------------------------------------------------------------
(* The invariant and the theorems.                                         *)

\* At first nothing is asked, open or saved.
LEMMA WalkInitInv == Init => WalkInv
<1> SUFFICES ASSUME Init PROVE WalkInv
  OBVIOUS
<1>1. zone \in [Refs -> Records \cup {NoRecord}]
  BY MylinkpasteAssumption DEF Init, PasteInit
<1>2. Closed \in [1..(MaxDepth + 1) -> Frame]
  BY DEF Closed, NoFrame, Frame
<1>3. WalkTypes
  BY <1>1, <1>2, MylinkpasteAssumption DEF Init, PasteInit, WalkTypes
<1>4. QueriesLeft
  BY FS_EmptySet, MylinkpasteAssumption DEF Init, PasteInit, QueriesLeft
<1>5. PasteListed /\ HashMatchesList
  BY DEF Init, PasteInit, PasteListed, RootListed, HashMatchesList
<1>6. QED
  BY <1>3, <1>4, <1>5 DEF WalkInv

\* Every step of a validation or of a publisher keeps the invariant.
LEMMA WalkNextInv == WalkInv /\ [Next]_vars => WalkInv'
<1> SUFFICES ASSUME WalkInv, [Next]_vars PROVE WalkInv'
  OBVIOUS
<1>1. CASE BeginPaste
  BY <1>1, BeginPasteStep
<1>2. CASE BeginDownload \/ DownloadFails \/ DownloadRaises \/ Download
  BY <1>2, PlaylistStep
<1>3. CASE WalkStep /\ UNCHANGED <<kind, body, saved>>
  <2>1. CASE ResolverRaises \/ ResolverRefuses
    BY <1>3, <2>1, NoAnswerStep
  <2>2. CASE ResolverAnswers \/ ResolversExhausted
    BY <1>3, <2>2, AnswerStep
  <2>3. ASSUME NEW item \in Inner.rest, TakeLinks(item) \/ Follow(item)
        PROVE  WalkInv'
    BY <1>3, <2>3, TakeLinksStep, FollowStep
  <2>4. CASE Close \/ CloseRoot
    BY <1>3, <2>4, CloseStep, CloseRootStep
  <2>5. QED
    BY <1>3, <2>1, <2>2, <2>3, <2>4 DEF WalkStep
<1>4. CASE Keep
  BY <1>4, KeepStep
<1>5. CASE Publish /\ UNCHANGED <<kind, body, saved>>
  BY <1>5, PublishStep
<1>6. CASE UNCHANGED vars
  BY <1>6 DEF vars, paste, query, walk, history, WalkInv, WalkTypes, QueriesLeft,
     PasteListed, RootListed, HashMatchesList
<1>7. QED
  BY <1>1, <1>2, <1>3, <1>4, <1>5, <1>6 DEF Next, Work

\* The invariant holds in every reachable state.
LEMMA WalkCorrect == Spec => []WalkInv
BY WalkInitInv, WalkNextInv, PTL DEF Spec

\* A validation asks each resolver for each list once at most: cycles, lists
\* met by several ways and edits made meanwhile never add a query.
THEOREM QueriesBoundedCorrect == Spec => []QueriesBounded
<1>1. WalkInv => QueriesBounded
  <2> SUFFICES ASSUME WalkInv PROVE QueriesBounded
    OBVIOUS
  <2>1. PICK met \in Nat, all \in Nat :
          met = Cardinality(visited) /\ all = Cardinality(Refs) /\ met <= all
    BY VisitedFinite, MylinkpasteAssumption, FS_CardinalityType DEF WalkInv
  <2>2. Resolvers * met <= Resolvers * all
    <3>1. Resolvers \in {0, 1, 2}
      BY MylinkpasteAssumption
    <3>2. QED
      BY <2>1, <3>1
  <2>3. queries <= Resolvers * met /\ queries \in Nat
    BY <2>1 DEF WalkInv, WalkTypes, QueriesLeft
  <2>4. Resolvers * met \in Nat /\ Resolvers * all \in Nat
    BY <2>1, MylinkpasteAssumption
  <2>5. QED
    BY <2>1, <2>2, <2>3, <2>4 DEF QueriesBounded
<1>2. QED
  BY <1>1, WalkCorrect, PTL

\* The hash of a paste's snapshot is that of the root its list came from,
\* however the lists were edited during the walk.
THEOREM HashMatchesListCorrect == Spec => []HashMatchesList
<1>1. WalkInv => HashMatchesList
  BY DEF WalkInv
<1>2. QED
  BY <1>1, WalkCorrect, PTL

-----------------------------------------------------------------------------
(* Types.                                                                  *)

\* What the walk does not rest on: the counters, the result and the snapshot,
\* and that a walk has read its root before it opens anything or is valid.
RestTypes ==
    /\ kind \in {"mylinkpaste", "m3u"} /\ body \in Seq(Lines)
    /\ edits \in Nat /\ begun \in Nat /\ refused \in BOOLEAN /\ raised \in BOOLEAN
    /\ root \in Records \cup {NoRecord} /\ result \in Result
    /\ IsContent(given) /\ IsContent(saved.hash) /\ saved.streams \subseteq Streams
    /\ pc \in {"ask", "walk"} /\ top > 0 => root \in Records
    /\ kind = "mylinkpaste" /\ pc = "done" /\ result.status = "valid" => root \in Records

\* At first nothing is saved.
LEMMA RestInit == Init => RestTypes
<1> SUFFICES ASSUME Init PROVE RestTypes
  OBVIOUS
<1>1. body \in Seq(Lines)
  <2>1. << >> \in Seq(Lines)
    OBVIOUS
  <2>2. body = << >> \/ body \in Bodies
    BY DEF Init
  <2>3. QED
    BY <2>1, <2>2, ValidatorAssumption
<1>2. NoResult \in Result /\ NoResult.status = "none"
  BY DEF NoResult, Result
<1>3. QED
  BY <1>1, <1>2 DEF Init, PasteInit, RestTypes, IsContent

\* A walk begins without a root.
LEMMA BeginTypes ==
    ASSUME RestTypes, BeginPaste \/ BeginDownload
    PROVE  RestTypes'
<1>1. /\ given' \in {saved.hash, NoContent}
      /\ UNCHANGED <<edits, result, kind, body, saved>>
  BY DEF BeginPaste, BeginDownload, BeginWalk
<1>2. IsContent(given)' /\ IsContent(saved.hash)'
  BY <1>1 DEF RestTypes, IsContent
<1>3. refused' \in BOOLEAN /\ raised' \in BOOLEAN
  BY DEF RestTypes, BeginPaste, BeginDownload, BeginWalk, Ask, query, history
<1>4. /\ root' \in {root, NoRecord} /\ begun' \in {begun, edits}
      /\ pc' = "download" \/ (pc' = "ask" /\ top' = 0)
  BY DEF BeginPaste, BeginDownload, BeginWalk, Ask, walk, history
<1>5. QED
  BY <1>1, <1>2, <1>3, <1>4 DEF RestTypes

\* What becomes of a record: it is opened, or the walk ends or goes on.
LEMMA ReceiveTypes ==
    ASSUME WalkTypes, RestTypes, pc = "ask",
           NEW txt \in Records \cup {NoRecord}, Receive(txt)
    PROVE  /\ root' \in Records \cup {NoRecord} /\ result' \in Result
           /\ pc' \in {"ask", "walk"} /\ top' > 0 => root' \in Records
           /\ ~(pc' = "done" /\ result'.status = "valid")
<1> USE DEF End, Result, walk, WalkTypes, RestTypes
<1>1. CASE txt = NoRecord /\ top > 0 /\ pc' = "walk" /\ UNCHANGED <<walk, result>>
  BY <1>1
<1>2. CASE UNCHANGED walk /\ End("invalid", {})
  BY <1>2
<1>3. CASE End("notModified", {}) /\ root' = txt
  BY <1>3
<1>4. CASE /\ txt \notin {NoRecord, Garbage}
           /\ pc' = "walk" /\ top' = top + 1
           /\ root' = IF top = 0 THEN txt ELSE root
           /\ UNCHANGED result
  BY <1>4
<1>5. QED
  BY <1>1, <1>2, <1>3, <1>4 DEF Receive

\* A resolver asked, or none left to ask.
LEMMA AskTypes ==
    ASSUME WalkTypes, RestTypes, UNCHANGED <<kind, body, saved>>,
           \/ ResolverRaises \/ ResolverRefuses
           \/ ResolverAnswers \/ ResolversExhausted
    PROVE  RestTypes'
<1>1. CASE ResolverRaises \/ ResolverRefuses
  BY <1>1 DEF RestTypes, ResolverRaises, ResolverRefuses, Asking, IsContent, walk
<1>2. CASE ResolverAnswers \/ ResolversExhausted
  <2>1. /\ pc = "ask" /\ zone[asked] \in Records \cup {NoRecord}
        /\ UNCHANGED <<edits, begun, refused, raised, given>>
    BY <1>2 DEF WalkTypes, ResolverAnswers, ResolversExhausted, Asking, query, history
  <2>2. \/ \E txt \in Records \cup {NoRecord} : Receive(txt)
        \/ End("unreachable", {}) /\ UNCHANGED walk
    BY <1>2, <2>1 DEF ResolverAnswers, ResolversExhausted
  <2>3. /\ root' \in Records \cup {NoRecord} /\ result' \in Result
        /\ pc' \in {"ask", "walk"} /\ top' > 0 => root' \in Records
        /\ ~(pc' = "done" /\ result'.status = "valid")
    <3>1. CASE \E txt \in Records \cup {NoRecord} : Receive(txt)
      BY <2>1, <3>1, ReceiveTypes
    <3>2. CASE End("unreachable", {}) /\ UNCHANGED walk
      BY <3>2 DEF End, Result, walk, RestTypes
    <3>3. QED
      BY <2>2, <3>1, <3>2
  <2>4. QED
    BY <2>1, <2>3 DEF RestTypes, IsContent
<1>3. QED
  BY <1>1, <1>2

\* The items of an open record; the streams of the root are the result.
LEMMA ItemTypes ==
    ASSUME WalkTypes, RestTypes, UNCHANGED <<kind, body, saved>>,
           \/ \E item \in Inner.rest : TakeLinks(item) \/ Follow(item)
           \/ Close \/ CloseRoot
    PROVE  RestTypes'
<1>1. UNCHANGED <<edits, begun, refused, given, root>> /\ pc = "walk" /\ top > 0
  BY DEF TakeLinks, Follow, Close, CloseRoot, Walking, query, walk, history
<1>2. raised' \in BOOLEAN
  BY DEF TakeLinks, Follow, Close, CloseRoot, Ask, query, RestTypes
<1>3. root \in Records
  BY <1>1 DEF RestTypes
<1>4. result' \in Result
  <2>1. CASE CloseRoot
    <3>1. top \in 1..(MaxDepth + 1) /\ Inner.found \subseteq Streams
      BY <2>1, MylinkpasteAssumption DEF WalkTypes, CloseRoot, Inner, Frame
    <3>2. QED
      BY <2>1, <3>1 DEF CloseRoot, End, Result
  <2>2. CASE ~CloseRoot
    BY <2>2 DEF TakeLinks, Follow, Close, RestTypes
  <2>3. QED
    BY <2>1, <2>2
<1>5. QED
  BY <1>1, <1>2, <1>3, <1>4 DEF RestTypes, IsContent

\* The streams of a playlist are those of its channels.
LEMMA DownloadTypes ==
    ASSUME WalkTypes, RestTypes, DownloadFails \/ DownloadRaises \/ Download
    PROVE  RestTypes'
<1>1. /\ kind = "m3u" /\ pc' \in {"done", "idle"} /\ given' \in {given, NoContent}
      /\ UNCHANGED <<edits, begun, refused, raised, root, kind, body, saved>>
  BY DEF WalkTypes, RestTypes, DownloadFails, DownloadRaises, Download, End, query, walk,
     history
<1>2. result' \in Result
  <2>1. ParseM3u(body) \in Seq(Channel)
    BY ParsedChannels DEF RestTypes
  <2>2. Listed(ParseM3u(body)) \subseteq Streams
    <3>1. PICK channels \in Seq(Channel) : channels = ParseM3u(body)
      BY <2>1
    <3>2. \A i \in DOMAIN channels : channels[i].stream \in Streams
      <4>1. \A i \in DOMAIN channels : channels[i] \in Channel
        OBVIOUS
      <4>2. QED
        BY <4>1 DEF Channel
    <3>3. QED
      BY <3>1, <3>2 DEF Listed
  <2>3. QED
    <3>1. CASE DownloadFails \/ Download
      BY <2>2, <3>1 DEF DownloadFails, Download, End, Result
    <3>2. CASE DownloadRaises
      BY <3>2 DEF DownloadRaises, RestTypes
    <3>3. QED
      BY <3>1, <3>2
<1>3. QED
  BY <1>1, <1>2 DEF RestTypes, IsContent

\* A snapshot takes its streams and its hash from a valid result.
LEMMA KeepTypes ==
    ASSUME WalkTypes, RestTypes, Keep
    PROVE  RestTypes'
<1>1. /\ pc = "done" /\ pc' = "idle" /\ result' = NoResult /\ given' = NoContent
      /\ UNCHANGED <<edits, begun, refused, raised, root, kind, body>>
  BY DEF Keep, query, walk, history
<1>2. IsContent(saved.hash)' /\ saved'.streams \subseteq Streams
  <2>1. CASE result.status = "valid"
    <3>1. PICK hash \in {Content, NoContent} :
            saved' = [hash |-> hash, streams |-> result.streams]
      BY <2>1 DEF Keep
    <3>2. IsContent(Content) /\ IsContent(NoContent)
      BY <1>1, <2>1 DEF IsContent, Content, RestTypes
    <3>3. QED
      BY <1>1, <3>1, <3>2 DEF RestTypes, Result, IsContent
  <2>2. CASE result.status # "valid"
    BY <1>1, <2>2 DEF Keep, RestTypes, IsContent
  <2>3. QED
    BY <2>1, <2>2
<1>3. QED
  BY <1>1, <1>2 DEF RestTypes, IsContent, NoResult, Result

\* Every step keeps the types.
LEMMA RestNext == WalkInv /\ RestTypes /\ [Next]_vars => RestTypes'
<1> SUFFICES ASSUME WalkTypes, RestTypes, [Next]_vars PROVE RestTypes'
  BY DEF WalkInv
<1>1. CASE BeginPaste \/ BeginDownload
  BY <1>1, BeginTypes
<1>2. CASE WalkStep /\ UNCHANGED <<kind, body, saved>>
  BY <1>2, AskTypes, ItemTypes DEF WalkStep
<1>3. CASE DownloadFails \/ DownloadRaises \/ Download
  BY <1>3, DownloadTypes
<1>4. CASE Keep
  BY <1>4, KeepTypes
<1>5. CASE Publish /\ UNCHANGED <<kind, body, saved>>
  BY <1>5 DEF RestTypes, Publish, IsContent, query, walk, history
<1>6. CASE UNCHANGED vars
  BY <1>6 DEF vars, paste, query, walk, history, RestTypes, IsContent
<1>7. QED
  BY <1>1, <1>2, <1>3, <1>4, <1>5, <1>6 DEF Next, Work

\* A validation is well typed in every reachable state.
THEOREM TypeCorrect == Spec => []TypeOK
<1>1. WalkInv /\ RestTypes => TypeOK
  BY MylinkpasteAssumption DEF WalkInv, WalkTypes, RestTypes, TypeOK, PasteTypeOK
<1>2. QED
  BY <1>1, RestInit, RestNext, WalkCorrect, PTL DEF Spec

\* A playlist is parsed to the channels it announces, each under the title
\* that announces it first, whatever lines come between.
THEOREM PlaylistAsAnnouncedCorrect == Spec => []PlaylistAsAnnounced
<1>1. TypeOK => PlaylistAsAnnounced
  BY ParsedChannels DEF TypeOK, PlaylistAsAnnounced
<1>2. QED
  BY <1>1, TypeCorrect, PTL

-----------------------------------------------------------------------------
(* Completeness: a walk that nothing disturbs finds all that is published. *)

\* Distinct references, each listed by the one before it, from the root on.
Path(c, n) ==
    /\ c \in [0..n -> Refs] /\ c[0] = Root
    /\ \A i, j \in 0..n : c[i] = c[j] => i = j
    /\ \A i \in 1..n : c[i] \in RefsIn(zone[c[i - 1]])

\* The open records are those of a path of references met, which ends in the
\* one that is being asked for.
OpenOnPath ==
    \E n \in 0..(MaxDepth + 1) : \E c \in [0..n -> Refs] :
        /\ Path(c, n)
        /\ \A i \in 0..n : c[i] \in visited
        /\ IF pc = "ask" THEN n = top /\ c[n] = asked ELSE n = top - 1
        /\ \A i \in 1..top : frames[i].rest \subseteq ItemsOf(zone[c[i - 1]])

Found == UNION {frames[i].found : i \in 1..top}

\* An item is settled when its streams are found, or its list is met.
Settled(item) ==
    IF item.ref = NoRef THEN item.links \subseteq Found ELSE item.ref \in visited

Waiting(item) == \E i \in 1..top : item \in frames[i].rest

\* Every item of a reference met, but for the one that is being asked for, is
\* settled or waits in an open record.
NothingLost ==
    \A v \in visited : v # asked \/ pc # "ask" =>
        \A item \in ItemsOf(zone[v]) : Waiting(item) \/ Settled(item)

FoundListed == Found \subseteq UNION {LinksIn(zone[v]) : v \in visited}

\* S has the root, and all that its members refer to.
HoldsAll(S) == Root \in S /\ \A r \in S : RefsIn(zone[r]) \subseteq S

MetReachable == \A S \in SUBSET Refs : HoldsAll(S) => visited \subseteq S

Walked ==
    /\ Root \in visited
    /\ pc = "walk" => top > 0
    /\ OpenOnPath /\ NothingLost /\ FoundListed /\ MetReachable

\* No edit, no refused query and no depth limit has disturbed the walk.
Undisturbed == kind = "mylinkpaste" /\ Unedited /\ ~refused /\ Shallow

\* Nothing has been found or refused before a validation is valid; without a
\* refusal or an exception the first resolver is asked, and opens the record.
CompleteInv ==
    /\ begun <= edits
    /\ pc # "done" => result.status # "valid"
    /\ pc = "ask" /\ ~raised /\ ~refused => resolver = 1
    /\ pc \in {"ask", "walk"} /\ top > 0 => Resolvers > 0
    /\ pc \in {"ask", "walk"} /\ Undisturbed => Walked
    /\ ValidIsComplete

\* A path is no longer than the limit of an undisturbed walk.
LEMMA PathShort ==
    ASSUME NEW n \in Nat, NEW c, Path(c, n), Shallow
    PROVE  n <= MaxDepth
<1> SUFFICES ASSUME n > MaxDepth PROVE FALSE
  BY MylinkpasteAssumption
<1>1. c \in Injection(0..n, Refs)
  BY Fun_IsInj DEF Path
<1>2. Cardinality(0..n) = n + 1
  BY FS_Interval
<1>3. n + 1 <= Cardinality(Refs) /\ Cardinality(Refs) \in Nat
  BY <1>1, <1>2, FS_Injection, FS_CardinalityType, MylinkpasteAssumption
<1>4. n \in (MaxDepth + 1)..(Cardinality(Refs) - 1)
  BY <1>3, MylinkpasteAssumption
<1>5. QED
  BY <1>4 DEF Path, Shallow

\* A reference not met yet lengthens a path of references met.
LEMMA PathLonger ==
    ASSUME NEW n \in Nat, NEW m \in Nat, m = n + 1,
           NEW c, Path(c, n), \A i \in 0..n : c[i] \in visited,
           NEW ref \in Refs \ visited, ref \in RefsIn(zone[c[n]])
    PROVE  \E d \in [0..m -> Refs] :
              Path(d, m) /\ d[m] = ref /\ \A i \in 0..n : d[i] = c[i]
<1>1. PICK d : d = [i \in 0..m |-> IF i = m THEN ref ELSE c[i]]
  OBVIOUS
<1>2. /\ d[m] = ref /\ \A i \in 0..n : d[i] = c[i]
      /\ 0..m = (0..n) \cup {m}
  BY <1>1
<1>3. d \in [0..m -> Refs] /\ d[0] = Root
  BY <1>1, <1>2 DEF Path
<1>4. \A i, j \in 0..m : d[i] = d[j] => i = j
  BY <1>2 DEF Path
<1>5. ASSUME NEW i \in 1..m
      PROVE  d[i] \in RefsIn(zone[d[i - 1]])
  <2>1. CASE i = m
    <3>1. d[i] = ref /\ d[i - 1] = c[n]
      BY <1>2, <2>1
    <3>2. QED
      BY <3>1
  <2>2. CASE i # m
    <3>1. i \in 1..n /\ i \in 0..n /\ i - 1 \in 0..n
      BY <2>2
    <3>2. d[i] = c[i] /\ d[i - 1] = c[i - 1]
      BY <1>2, <3>1
    <3>3. QED
      BY <3>1, <3>2 DEF Path
  <2>3. QED
    BY <2>1, <2>2
<1>6. QED
  BY <1>2, <1>3, <1>4, <1>5 DEF Path

\* A path may end earlier.
LEMMA PathShorter ==
    ASSUME NEW n \in Nat, NEW m \in Nat, n = m + 1, NEW c, Path(c, n)
    PROVE  \E d \in [0..m -> Refs] : Path(d, m) /\ \A i \in 0..m : d[i] = c[i]
<1>1. PICK d : d = [i \in 0..m |-> c[i]]
  OBVIOUS
<1>2. \A i \in 0..m : d[i] = c[i] /\ i \in 0..n
  BY <1>1
<1>3. \A i \in 1..m : i \in 0..m /\ i - 1 \in 0..m /\ i \in 1..n
  OBVIOUS
<1>4. d \in [0..m -> Refs]
  BY <1>1, <1>2 DEF Path
<1>5. QED
  BY <1>2, <1>3, <1>4 DEF Path

\* A record that is received waits as a whole; one that is missing has no items.
LEMMA ReceiveWalked ==
    ASSUME WalkTypes, Walked, pc = "ask", Receive(zone[asked]), pc' = "walk",
           UNCHANGED <<zone, asked>>
    PROVE  Walked'
<1> USE MylinkpasteAssumption
<1>1. PICK n, c :
        /\ n \in 0..(MaxDepth + 1) /\ c \in [0..n -> Refs] /\ Path(c, n) /\ n = top /\ c[n] = asked
        /\ \A i \in 0..n : c[i] \in visited
        /\ \A i \in 1..top : frames[i].rest \subseteq ItemsOf(zone[c[i - 1]])
  BY DEF Walked, OpenOnPath
<1>2. /\ top \in 0..MaxDepth /\ frames \in [1..(MaxDepth + 1) -> Frame]
      /\ Root \in visited /\ NothingLost /\ FoundListed /\ MetReachable
  BY DEF WalkTypes, Walked
<1>3. UNCHANGED visited
  BY DEF Receive, walk, End
<1>4. MetReachable'
  BY <1>2, <1>3 DEF MetReachable, HoldsAll
<1>5. CASE zone[asked] = NoRecord /\ top > 0 /\ UNCHANGED <<walk, result>>
  <2>1. UNCHANGED <<top, frames, Found>> /\ ItemsOf(zone[asked]) = {}
    BY <1>5 DEF walk, Found, ItemsOf
  <2>2. FoundListed'
    BY <1>2, <1>3, <2>1 DEF FoundListed
  <2>3. NothingLost'
    <3>1. \A item : Waiting(item)' = Waiting(item) /\ Settled(item)' = Settled(item)
      BY <1>3, <2>1 DEF Waiting, Settled
    <3>2. QED
      BY <1>2, <1>3, <2>1, <3>1 DEF NothingLost
  <2>4. OpenOnPath'
    <3> DEFINE m == n - 1
    <3>1. /\ m \in Nat /\ n \in Nat /\ n = m + 1 /\ m \in 0..(MaxDepth + 1)
          /\ m = top - 1
          /\ \A i \in 1..top : i - 1 \in 0..m
          /\ \A i \in 0..m : i \in 0..n
      BY <1>1, <1>2, <1>5
    <3> HIDE DEF m
    <3>2. PICK d \in [0..m -> Refs] : Path(d, m) /\ \A i \in 0..m : d[i] = c[i]
      BY <1>1, <3>1, PathShorter
    <3>3. Path(d, m)'
      BY <3>2 DEF Path
    <3>4. /\ \A i \in 0..m : d[i] \in visited'
          /\ \A i \in 1..top' : frames'[i].rest \subseteq ItemsOf(zone'[d[i - 1]])
      BY <1>1, <1>3, <2>1, <3>1, <3>2
    <3>5. QED
      BY <2>1, <3>1, <3>3, <3>4 DEF OpenOnPath
  <2>5. QED
    BY <1>2, <1>3, <1>4, <1>5, <2>1, <2>2, <2>3, <2>4 DEF Walked
<1>6. CASE /\ zone[asked] \notin {NoRecord, Garbage}
           /\ top' = top + 1
           /\ frames' = [frames EXCEPT ![top + 1] = [rest |-> ItemsOf(zone[asked]), found |-> {}]]
  <2> DEFINE f == [rest |-> ItemsOf(zone[asked]), found |-> {}]
  <2>1. /\ f.rest = ItemsOf(zone[asked]) /\ f.found = {}
        /\ frames'[top + 1] = f /\ top + 1 \in 1..(MaxDepth + 1)
        /\ \A i \in 1..top : frames'[i] = frames[i]
        /\ 1..top' = (1..top) \cup {top + 1}
    BY <1>2, <1>6
  <2> HIDE DEF f
  <2>2. Found' = Found
    BY <2>1 DEF Found
  <2>3. FoundListed'
    BY <1>2, <1>3, <2>2 DEF FoundListed
  <2>4. NothingLost'
    <3>1. \A item : /\ Waiting(item) => Waiting(item)'
                    /\ Settled(item)' = Settled(item)
                    /\ item \in ItemsOf(zone[asked]) => Waiting(item)'
      BY <1>3, <2>1, <2>2 DEF Waiting, Settled
    <3>2. QED
      BY <1>2, <1>3, <3>1 DEF NothingLost
  <2>5. OpenOnPath'
    <3>1. Path(c, n)'
      BY <1>1 DEF Path
    <3>2. \A i \in 1..top' : frames'[i].rest \subseteq ItemsOf(zone'[c[i - 1]])
      <4>1. (top + 1) - 1 = n
        BY <1>1, <1>2
      <4>2. QED
        BY <1>1, <2>1, <4>1
    <3>3. n = top' - 1
      BY <1>1, <1>2, <1>6
    <3>4. QED
      BY <1>1, <1>3, <3>1, <3>2, <3>3 DEF OpenOnPath
  <2>6. top' > 0
    BY <1>2, <1>6
  <2>7. QED
    BY <1>2, <1>3, <1>4, <2>3, <2>4, <2>5, <2>6 DEF Walked
<1>7. QED
  BY <1>5, <1>6 DEF Receive, End

\* The streams of an item are found where it waited.
LEMMA TakeLinksWalked ==
    ASSUME WalkTypes, Walked, NEW item \in Inner.rest, TakeLinks(item)
    PROVE  Walked'
<1> USE MylinkpasteAssumption
<1> DEFINE f == [rest |-> Inner.rest \ {item}, found |-> Inner.found \cup item.links]
<1>1. /\ top \in 1..(MaxDepth + 1) /\ pc = "walk" /\ item.ref = NoRef
      /\ frames \in [1..(MaxDepth + 1) -> Frame]
      /\ frames' = [frames EXCEPT ![top] = f]
      /\ UNCHANGED <<zone, pc, asked, visited, top>>
  BY DEF WalkTypes, TakeLinks, Walking, Inner, query
<1>2. PICK n, c :
        /\ n \in 0..(MaxDepth + 1) /\ c \in [0..n -> Refs] /\ Path(c, n) /\ n = top - 1
        /\ \A i \in 0..n : c[i] \in visited
        /\ \A i \in 1..top : frames[i].rest \subseteq ItemsOf(zone[c[i - 1]])
  BY <1>1 DEF Walked, OpenOnPath
<1>3. /\ Root \in visited /\ NothingLost /\ FoundListed /\ MetReachable
  BY DEF Walked
<1>4. /\ f.rest = Inner.rest \ {item} /\ f.found = Inner.found \cup item.links
      /\ frames'[top] = f /\ Inner = frames[top]
      /\ \A i \in 1..top : i # top => frames'[i] = frames[i]
  BY <1>1 DEF Inner
<1> HIDE DEF f
<1>5. Found' = Found \cup item.links
  BY <1>1, <1>4 DEF Found
<1>6. FoundListed'
  <2>1. item \in ItemsOf(zone[c[top - 1]]) /\ c[top - 1] \in visited
    BY <1>1, <1>2, <1>4
  <2>2. item.links \subseteq LinksIn(zone[c[top - 1]])
    BY <1>1, <2>1 DEF LinksIn
  <2>3. QED
    BY <1>1, <1>3, <1>5, <2>1, <2>2 DEF FoundListed
<1>7. NothingLost'
  <2>1. \A i : /\ Settled(i) => Settled(i)'
               /\ Waiting(i) => Waiting(i)' \/ i = item
    BY <1>1, <1>4, <1>5 DEF Waiting, Settled
  <2>2. Settled(item)'
    BY <1>1, <1>5 DEF Settled
  <2>3. QED
    BY <1>1, <1>3, <2>1, <2>2 DEF NothingLost
<1>8. OpenOnPath'
  <2>1. Path(c, n)'
    BY <1>1, <1>2 DEF Path
  <2>2. \A i \in 1..top : frames'[i].rest \subseteq frames[i].rest
    BY <1>4
  <2>3. QED
    BY <1>1, <1>2, <2>1, <2>2 DEF OpenOnPath
<1>9. MetReachable'
  BY <1>1, <1>3 DEF MetReachable, HoldsAll
<1>10. QED
  BY <1>1, <1>3, <1>6, <1>7, <1>8, <1>9 DEF Walked

\* An item is settled by meeting its list, which the limit never prevents.
LEMMA FollowWalked ==
    ASSUME WalkTypes, Walked, Shallow, NEW item \in Inner.rest, Follow(item)
    PROVE  Walked'
<1> USE MylinkpasteAssumption
<1> DEFINE f == [rest |-> Inner.rest \ {item}, found |-> Inner.found]
<1>1. /\ top \in 1..(MaxDepth + 1) /\ pc = "walk" /\ item.ref # NoRef
      /\ frames \in [1..(MaxDepth + 1) -> Frame]
      /\ UNCHANGED <<zone, top>>
  BY DEF WalkTypes, Follow, Walking, Inner
<1>2. PICK n, c :
        /\ n \in 0..(MaxDepth + 1) /\ c \in [0..n -> Refs] /\ Path(c, n)
        /\ n = top - 1
        /\ \A i \in 0..n : c[i] \in visited
        /\ \A i \in 1..top : frames[i].rest \subseteq ItemsOf(zone[c[i - 1]])
  BY <1>1 DEF Walked, OpenOnPath
<1>3. /\ Root \in visited /\ NothingLost /\ FoundListed /\ MetReachable
  BY DEF Walked
<1>4. frames' = [frames EXCEPT ![top] = f]
  BY DEF Follow, Inner
<1>5. /\ f.rest = Inner.rest \ {item} /\ f.found = Inner.found
      /\ frames'[top] = f /\ Inner = frames[top]
      /\ \A i \in 1..top : i # top => frames'[i] = frames[i]
  BY <1>1, <1>4 DEF Inner
<1> HIDE DEF f
<1>6. Found' = Found /\ \A i \in 1..top : frames'[i].rest \subseteq frames[i].rest
  BY <1>1, <1>5 DEF Found
<1>7. c[n] \in visited /\ item.ref \in Refs /\ item.ref \in RefsIn(zone[c[n]])
  <2>1. item \in ItemsOf(zone[c[n]])
    BY <1>1, <1>2, <1>5
  <2>2. item \in Item
    BY <1>1, <1>5 DEF Frame
  <2>3. QED
    BY <1>1, <1>2, <2>1, <2>2 DEF RefsIn, Item
<1>8. \/ item.ref \in visited /\ UNCHANGED <<pc, asked, visited>>
      \/ /\ item.ref \notin visited /\ pc' = "ask" /\ asked' = item.ref
         /\ visited' = visited \cup {item.ref}
  <2>1. CASE item.ref \in visited
    BY <2>1 DEF Follow, query
  <2>2. CASE item.ref \notin visited
    <3>1. n \in Nat /\ top \in Nat /\ top = n + 1
      BY <1>1, <1>2
    <3>2. PICK d : Path(d, top)
      BY <1>2, <1>7, <2>2, <3>1, PathLonger
    <3>3. top <= MaxDepth
      BY <3>1, <3>2, PathShort
    <3>4. ~(top > MaxDepth)
      BY <1>1, <3>3
    <3>5. QED
      BY <2>2, <3>4 DEF Follow, Ask
  <2>3. QED
    BY <2>1, <2>2
<1>9. /\ visited \subseteq visited' /\ item.ref \in visited'
      /\ \A v \in visited' : v \in visited \/ (v = asked' /\ pc' = "ask")
  BY <1>8
<1>10. FoundListed'
  BY <1>1, <1>3, <1>6, <1>9 DEF FoundListed
<1>11. NothingLost'
  <2>1. \A i : /\ Settled(i) => Settled(i)'
               /\ Waiting(i) => Waiting(i)' \/ i = item
    BY <1>1, <1>5, <1>6, <1>9 DEF Waiting, Settled
  <2>2. Settled(item)'
    BY <1>1, <1>9 DEF Settled
  <2>3. QED
    BY <1>1, <1>3, <1>9, <2>1, <2>2 DEF NothingLost
<1>12. MetReachable'
  <2>1. ASSUME NEW S \in SUBSET Refs, HoldsAll(S)'
        PROVE  visited' \subseteq S
    <3>1. HoldsAll(S)
      BY <1>1, <2>1 DEF HoldsAll
    <3>2. visited \subseteq S
      BY <1>3, <3>1 DEF MetReachable
    <3>3. item.ref \in S
      BY <1>7, <3>1, <3>2 DEF HoldsAll
    <3>4. QED
      BY <1>8, <3>2, <3>3
  <2>2. QED
    BY <2>1 DEF MetReachable
<1>13. OpenOnPath'
  <2>1. CASE item.ref \in visited /\ UNCHANGED <<pc, asked, visited>>
    <3>1. Path(c, n)'
      BY <1>1, <1>2 DEF Path
    <3>2. QED
      BY <1>1, <1>2, <1>6, <2>1, <3>1 DEF OpenOnPath
  <2>2. CASE /\ item.ref \notin visited /\ pc' = "ask" /\ asked' = item.ref
             /\ visited' = visited \cup {item.ref}
    <3>1. /\ n \in Nat /\ top \in Nat /\ top = n + 1 /\ top \in 0..(MaxDepth + 1)
          /\ 0..top = (0..n) \cup {top}
          /\ \A i \in 1..top : i - 1 \in 0..n
      BY <1>1, <1>2
    <3>2. PICK d \in [0..top -> Refs] :
            Path(d, top) /\ d[top] = item.ref /\ \A i \in 0..n : d[i] = c[i]
      <4>1. PICK m \in Nat, ref \in Refs \ visited :
              m = top /\ m = n + 1 /\ ref = item.ref /\ ref \in RefsIn(zone[c[n]])
        BY <1>7, <2>2, <3>1
      <4>2. Path(c, n) /\ (\A i \in 0..n : c[i] \in visited) /\ n \in Nat
        BY <1>2, <3>1
      <4>3. \E d \in [0..m -> Refs] :
              Path(d, m) /\ d[m] = ref /\ \A i \in 0..n : d[i] = c[i]
        BY <4>1, <4>2, PathLonger
      <4>4. QED
        BY <4>1, <4>3
    <3>3. Path(d, top)'
      BY <1>1, <3>2 DEF Path
    <3>4. \A i \in 0..top : d[i] \in visited'
      BY <1>2, <2>2, <3>1, <3>2
    <3>5. \A i \in 1..top' : frames'[i].rest \subseteq ItemsOf(zone'[d[i - 1]])
      BY <1>1, <1>2, <1>6, <3>1, <3>2
    <3>6. QED
      BY <1>1, <2>2, <3>1, <3>2, <3>3, <3>4, <3>5 DEF OpenOnPath
  <2>3. QED
    BY <1>8, <2>1, <2>2
<1>14. QED
  BY <1>1, <1>3, <1>9, <1>10, <1>11, <1>12, <1>13 DEF Walked

\* A list that closes has nothing left, and its parent takes what it found.
LEMMA CloseWalked ==
    ASSUME WalkTypes, Walked, Close
    PROVE  Walked'
<1> USE MylinkpasteAssumption
<1> DEFINE f == [rest |-> frames[top - 1].rest,
                 found |-> frames[top - 1].found \cup Inner.found]
<1>1. /\ top \in 2..(MaxDepth + 1) /\ top - 1 \in 1..MaxDepth /\ pc = "walk"
      /\ frames \in [1..(MaxDepth + 1) -> Frame] /\ top' = top - 1
      /\ frames[top].rest = {}
      /\ UNCHANGED <<zone, pc, asked, visited>>
  BY DEF WalkTypes, Close, Walking, Inner, query
<1>2. PICK n, c :
        /\ n \in 0..(MaxDepth + 1) /\ c \in [0..n -> Refs] /\ Path(c, n)
        /\ n = top - 1
        /\ \A i \in 0..n : c[i] \in visited
        /\ \A i \in 1..top : frames[i].rest \subseteq ItemsOf(zone[c[i - 1]])
  BY <1>1 DEF Walked, OpenOnPath
<1>3. /\ Root \in visited /\ NothingLost /\ FoundListed /\ MetReachable
  BY DEF Walked
<1>4. frames' = [frames EXCEPT ![top] = NoFrame, ![top - 1] = f]
  BY <1>1 DEF Close
<1>5. /\ f.rest = frames[top - 1].rest
      /\ f.found = frames[top - 1].found \cup frames[top].found
  BY DEF Inner
<1> HIDE DEF f
<1>6. /\ frames'[top - 1] = f
      /\ \A i \in 1..top' : i # top - 1 => frames'[i] = frames[i]
      /\ 1..top = (1..top') \cup {top} /\ top - 1 \in 1..top'
  BY <1>1, <1>4
<1>7. /\ Found' = Found
      /\ \A i \in 1..top' : frames'[i].rest = frames[i].rest
  BY <1>5, <1>6 DEF Found
<1>8. \A item : Settled(item)' = Settled(item) /\ Waiting(item)' = Waiting(item)
  BY <1>1, <1>6, <1>7 DEF Settled, Waiting
<1>9. NothingLost' /\ FoundListed' /\ MetReachable'
  BY <1>1, <1>3, <1>7, <1>8 DEF NothingLost, FoundListed, MetReachable, HoldsAll
<1>10. OpenOnPath'
  <2> DEFINE m == n - 1
  <2>1. /\ m \in Nat /\ n \in Nat /\ n = m + 1 /\ m \in 0..(MaxDepth + 1) /\ m = top' - 1
        /\ \A i \in 1..top' : i \in 1..top /\ i - 1 \in 0..m
        /\ \A i \in 0..m : i \in 0..n
    BY <1>1, <1>2
  <2> HIDE DEF m
  <2>2. PICK d \in [0..m -> Refs] : Path(d, m) /\ \A i \in 0..m : d[i] = c[i]
    BY <1>2, <2>1, PathShorter
  <2>3. Path(d, m)'
    BY <1>1, <2>2 DEF Path
  <2>4. /\ \A i \in 0..m : d[i] \in visited'
        /\ \A i \in 1..top' : frames'[i].rest \subseteq ItemsOf(zone'[d[i - 1]])
    BY <1>1, <1>2, <1>7, <2>1, <2>2
  <2>5. QED
    BY <1>1, <2>1, <2>3, <2>4 DEF OpenOnPath
<1>11. QED
  BY <1>1, <1>3, <1>9, <1>10 DEF Walked

\* A walk begins at the root, of which nothing is known yet.
LEMMA BeginWalked ==
    ASSUME BeginPaste
    PROVE  Walked'
<1> USE MylinkpasteAssumption
<1>1. /\ pc' = "ask" /\ asked' = Root /\ visited' = {Root} /\ top' = 0
      /\ UNCHANGED zone
  BY DEF BeginPaste, BeginWalk, Ask
<1>2. PICK c : c = [i \in 0..0 |-> Root]
  OBVIOUS
<1>3. c \in [0..0 -> Refs] /\ c[0] = Root /\ 0..0 = {0} /\ 1..0 = {}
  BY <1>2
<1>4. Path(c, 0)'
  BY <1>3 DEF Path
<1>5. OpenOnPath'
  <2>1. 0 \in 0..(MaxDepth + 1) /\ 1..top' = {}
    BY <1>1
  <2>2. QED
    BY <1>1, <1>3, <1>4, <2>1 DEF OpenOnPath
<1>6. Found' = {}
  BY <1>1 DEF Found
<1>7. NothingLost' /\ FoundListed' /\ MetReachable'
  BY <1>1, <1>6 DEF NothingLost, FoundListed, MetReachable, HoldsAll
<1>8. QED
  BY <1>1, <1>5, <1>7 DEF Walked

\* When the root closes nothing waits: what is met is what can be reached, and
\* what is found is what it lists.
LEMMA RootComplete ==
    ASSUME WalkTypes, Walked, pc = "walk", top = 1, Inner.rest = {}
    PROVE  Inner.found = Published
<1>1. Found = Inner.found /\ \A item : ~Waiting(item)
  <2>1. 1..top = {1} /\ Inner = frames[1]
    BY DEF Inner
  <2>2. QED
    BY <2>1 DEF Found, Waiting
<1>2. /\ Root \in visited /\ visited \subseteq Refs
      /\ NothingLost /\ FoundListed /\ MetReachable
  BY DEF Walked, WalkTypes
<1>3. \A v \in visited : \A item \in ItemsOf(zone[v]) : Settled(item)
  BY <1>1, <1>2 DEF NothingLost
<1>4. HoldsAll(visited)
  <2>1. ASSUME NEW v \in visited, NEW r \in RefsIn(zone[v])
        PROVE  r \in visited
    <3>1. PICK item \in ItemsOf(zone[v]) : item.ref = r /\ r # NoRef
      BY <2>1 DEF RefsIn
    <3>2. QED
      BY <1>3, <3>1 DEF Settled
  <2>2. QED
    BY <1>2, <2>1 DEF HoldsAll
<1>5. Reachable = visited
  <2>1. Reachable = {r \in Refs : \A S \in SUBSET Refs : HoldsAll(S) => r \in S}
    BY DEF Reachable, HoldsAll
  <2>2. visited \subseteq Reachable
    BY <1>2, <2>1 DEF MetReachable
  <2>3. Reachable \subseteq visited
    BY <1>2, <1>4, <2>1
  <2>4. QED
    BY <2>2, <2>3
<1>6. \A v \in visited : LinksIn(zone[v]) \subseteq Found
  <2>1. ASSUME NEW v \in visited, NEW s \in LinksIn(zone[v])
        PROVE  s \in Found
    <3>1. PICK item \in ItemsOf(zone[v]) : item.ref = NoRef /\ s \in item.links
      BY <2>1 DEF LinksIn
    <3>2. QED
      BY <1>3, <3>1 DEF Settled
  <2>2. QED
    BY <2>1
<1>7. Published = UNION {LinksIn(zone[v]) : v \in visited}
  BY <1>5 DEF Published
<1>8. QED
  BY <1>1, <1>2, <1>6, <1>7 DEF FoundListed

\* What is published, and whether a walk can read it all, are of the zone alone.
LEMMA SameZone ==
    ASSUME UNCHANGED <<zone, kind>>
    PROVE  UNCHANGED <<Published, Shallow>>
BY DEF Published, Reachable, Shallow

\* What is walked is of the zone, the records open and the references met.
LEMMA SameWalk ==
    ASSUME UNCHANGED <<zone, pc, asked, visited, top, frames>>
    PROVE  Walked => Walked'
<1>1. OpenOnPath => OpenOnPath'
  BY DEF OpenOnPath, Path
<1>2. Found' = Found
  BY DEF Found
<1>3. NothingLost => NothingLost'
  BY <1>2 DEF NothingLost, Waiting, Settled
<1>4. QED
  BY <1>1, <1>2, <1>3 DEF Walked, FoundListed, MetReachable, HoldsAll

\* A validation begins undisturbed, and knows nothing.
LEMMA BeginComplete ==
    ASSUME WalkTypes, RestTypes, CompleteInv, BeginPaste \/ BeginDownload
    PROVE  CompleteInv'
<1>1. /\ pc = "idle" /\ UNCHANGED result /\ result.status # "valid"
      /\ begun' <= edits' /\ pc' \in {"ask", "download"}
  BY DEF CompleteInv, RestTypes, BeginPaste, BeginDownload, BeginWalk, Ask, history
<1>2. pc' = "ask" => resolver' = 1 /\ top' = 0 /\ Walked'
  BY BeginWalked DEF BeginPaste, BeginDownload, BeginWalk, Ask
<1>3. QED
  BY <1>1, <1>2 DEF CompleteInv, ValidIsComplete

\* An endpoint that raises or refuses changes nothing of the walk, and is
\* remembered.
LEMMA NoAnswerComplete ==
    ASSUME CompleteInv, UNCHANGED kind, ResolverRaises \/ ResolverRefuses
    PROVE  CompleteInv'
<1>1. /\ pc = "ask"
      /\ UNCHANGED <<zone, edits, pc, asked, visited, top, frames, begun, result>>
      /\ (raised' = TRUE /\ UNCHANGED refused) \/ refused' = TRUE
  BY DEF ResolverRaises, ResolverRefuses, Asking, walk
<1>2. Undisturbed' => Undisturbed
  BY <1>1, SameZone DEF Undisturbed, Unedited
<1>3. Walked => Walked'
  BY <1>1, SameWalk
<1>4. pc' = "ask" /\ Undisturbed' => Walked'
  BY <1>1, <1>2, <1>3 DEF CompleteInv
<1>5. QED
  BY <1>1, <1>4 DEF CompleteInv, ValidIsComplete

\* An answer opens the record; without one, something has raised or refused, or
\* there is nobody to ask.
LEMMA AnswerComplete ==
    ASSUME WalkTypes, RestTypes, CompleteInv, UNCHANGED kind,
           ResolverAnswers \/ ResolversExhausted
    PROVE  CompleteInv'
<1> USE MylinkpasteAssumption
<1>1. /\ pc = "ask" /\ kind = "mylinkpaste" /\ Resolvers \in 0..2 /\ resolver \in 1..3
      /\ UNCHANGED <<zone, edits, asked, begun, refused>>
      /\ result.status # "valid"
  BY DEF WalkTypes, CompleteInv, ResolverAnswers, ResolversExhausted, Asking, query, history
<1>2. pc' \in {"walk", "done"} /\ result'.status # "valid"
  BY <1>1 DEF ResolverAnswers, ResolversExhausted, Receive, End
<1>3. Undisturbed' => Undisturbed
  BY <1>1, SameZone DEF Undisturbed, Unedited
<1>4. CASE ResolverAnswers
  <2>1. Receive(zone[asked]) /\ Resolvers > 0
    BY <1>1, <1>4 DEF ResolverAnswers, Asking
  <2>2. pc' = "walk" /\ Undisturbed' => Walked'
    BY <1>1, <1>3, <2>1, ReceiveWalked DEF CompleteInv
  <2>3. QED
    BY <1>1, <1>2, <2>1, <2>2 DEF CompleteInv, ValidIsComplete
<1>5. CASE ResolversExhausted
  <2>1. /\ resolver > Resolvers
        /\ pc' = "walk" => ~raised /\ top > 0
    BY <1>5 DEF ResolversExhausted, Receive, End
  <2>2. pc' = "walk" => Resolvers > 0
    BY <1>1, <2>1 DEF CompleteInv
  <2>3. ~(pc' = "walk" /\ Undisturbed')
    BY <1>1, <1>3, <2>1, <2>2 DEF CompleteInv, Undisturbed
  <2>4. QED
    BY <1>1, <1>2, <2>2, <2>3 DEF CompleteInv, ValidIsComplete
<1>6. QED
  BY <1>4, <1>5

\* The items of the open records are settled one by one, until a list closes.
LEMMA ItemsComplete ==
    ASSUME WalkTypes, RestTypes, CompleteInv, UNCHANGED kind,
           Close \/ \E item \in Inner.rest : TakeLinks(item) \/ Follow(item)
    PROVE  CompleteInv'
<1> USE MylinkpasteAssumption
<1>1. /\ pc = "walk" /\ kind = "mylinkpaste" /\ top > 0 /\ Resolvers > 0
      /\ UNCHANGED <<zone, edits, begun, refused, result>>
      /\ result.status # "valid"
  BY DEF WalkTypes, CompleteInv, Close, TakeLinks, Follow, Walking, history
<1>2. pc' = "walk" \/ (pc' = "ask" /\ resolver' = 1)
  BY <1>1 DEF Close, TakeLinks, Follow, Ask
<1>3. Undisturbed' => Undisturbed
  BY <1>1, SameZone DEF Undisturbed, Unedited
<1>4. Undisturbed' => Walked'
  <2> SUFFICES ASSUME Undisturbed' PROVE Walked'
    OBVIOUS
  <2>1. Walked /\ Shallow
    BY <1>1, <1>3 DEF CompleteInv, Undisturbed
  <2>2. CASE Close
    BY <2>1, <2>2, CloseWalked
  <2>3. ASSUME NEW item \in Inner.rest, TakeLinks(item) \/ Follow(item)
        PROVE  Walked'
    BY <2>1, <2>3, TakeLinksWalked, FollowWalked
  <2>4. QED
    BY <2>2, <2>3
<1>5. QED
  BY <1>1, <1>2, <1>4 DEF CompleteInv, ValidIsComplete

\* What an undisturbed walk has found when the root closes is what is published.
LEMMA CloseRootComplete ==
    ASSUME WalkTypes, CompleteInv, UNCHANGED kind, CloseRoot
    PROVE  CompleteInv'
<1>1. /\ pc = "walk" /\ top = 1 /\ Inner.rest = {} /\ pc' = "done"
      /\ UNCHANGED <<zone, edits, begun, refused>>
      /\ result'.status = "valid" => result'.streams = Inner.found
  BY DEF CloseRoot, Walking, End, history
<1>2. Undisturbed' => Undisturbed
  BY <1>1, SameZone DEF Undisturbed, Unedited
<1>3. ASSUME Undisturbed', result'.status = "valid"
      PROVE  result'.streams = Published'
  <2>1. Walked
    BY <1>1, <1>2, <1>3 DEF CompleteInv
  <2>2. Inner.found = Published
    BY <1>1, <2>1, RootComplete
  <2>3. QED
    BY <1>1, <1>3, <2>2, SameZone
<1>4. ValidIsComplete'
  BY <1>3 DEF ValidIsComplete, Undisturbed
<1>5. QED
  BY <1>1, <1>4 DEF CompleteInv

\* A playlist is not walked, and what has been kept is no result any more.
LEMMA OtherComplete ==
    ASSUME WalkTypes, CompleteInv, DownloadFails \/ DownloadRaises \/ Download \/ Keep
    PROVE  CompleteInv'
<1>1. /\ UNCHANGED <<edits, begun, kind>>
      /\ \/ kind # "mylinkpaste" /\ pc' = "done"
         \/ pc' = "idle" /\ result'.status # "valid"
  <2>1. CASE DownloadFails \/ Download
    BY <2>1 DEF WalkTypes, DownloadFails, Download, End, history
  <2>2. CASE DownloadRaises
    BY <2>2 DEF CompleteInv, DownloadRaises, history
  <2>3. CASE Keep
    BY <2>3 DEF Keep, NoResult, history
  <2>4. QED
    BY <2>1, <2>2, <2>3
<1>2. QED
  BY <1>1 DEF CompleteInv, ValidIsComplete

\* After an edit the zone is not the one the walk began with.
LEMMA PublishComplete ==
    ASSUME RestTypes, CompleteInv, UNCHANGED kind, Publish
    PROVE  CompleteInv'
<1>1. /\ edits' = edits + 1 /\ edits \in Nat /\ begun \in Nat /\ begun <= edits
      /\ UNCHANGED <<pc, result, begun, raised, refused, resolver, top>>
  BY DEF RestTypes, CompleteInv, Publish, query, walk, history
<1>2. ~Unedited'
  BY <1>1 DEF Unedited
<1>3. QED
  BY <1>1, <1>2 DEF CompleteInv, ValidIsComplete, Undisturbed

\* At first there is no result, and no walk.
LEMMA InitComplete == Init => CompleteInv
BY DEF Init, PasteInit, NoResult, CompleteInv, ValidIsComplete

\* Every step of a validation keeps what makes its walk complete.
LEMMA NextComplete ==
    WalkInv /\ RestTypes /\ CompleteInv /\ [Next]_vars => CompleteInv'
<1> SUFFICES ASSUME WalkTypes, RestTypes, CompleteInv, [Next]_vars
             PROVE  CompleteInv'
  BY DEF WalkInv
<1>1. CASE BeginPaste \/ BeginDownload
  BY <1>1, BeginComplete
<1>2. CASE WalkStep /\ UNCHANGED <<kind, body, saved>>
  BY <1>2, NoAnswerComplete, AnswerComplete, ItemsComplete, CloseRootComplete DEF WalkStep
<1>3. CASE DownloadFails \/ DownloadRaises \/ Download \/ Keep
  BY <1>3, OtherComplete
<1>4. CASE Publish /\ UNCHANGED <<kind, body, saved>>
  BY <1>4, PublishComplete
<1>5. CASE UNCHANGED vars
  <2>1. /\ UNCHANGED <<zone, edits, pc, asked, raised, resolver, visited, top, frames>>
        /\ UNCHANGED <<begun, refused, result, kind>>
    BY <1>5 DEF vars, paste, query, walk, history
  <2>2. UNCHANGED <<Undisturbed, Published, Shallow>>
    BY <2>1, SameZone DEF Undisturbed, Unedited
  <2>3. Walked => Walked'
    BY <2>1, SameWalk
  <2>4. QED
    BY <2>1, <2>2, <2>3 DEF CompleteInv, ValidIsComplete, Unedited
<1>6. QED
  BY <1>1, <1>2, <1>3, <1>4, <1>5 DEF Next, Work

\* A valid list is exactly what the records reachable from the root list,
\* whatever cycles and shared lists there are and however many resolvers have
\* failed, unless an edit, a refusal or the depth limit disturbed the walk.
THEOREM ValidIsCompleteCorrect == Spec => []ValidIsComplete
<1>1. CompleteInv => ValidIsComplete
  BY DEF CompleteInv
<1>2. QED
  BY <1>1, InitComplete, NextComplete, RestInit, RestNext, WalkCorrect, PTL DEF Spec
=============================================================================
