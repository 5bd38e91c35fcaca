--------------------------- MODULE LeapSecondFile ---------------------------
(***************************************************************************)
(* src/leapsectz: writing and parsing the leap seconds of a TZif file, and *)
(* the fake leap second of ntpcheck utils.  A file is a sequence of bytes; *)
(* byte k of a field of w bytes is <<value, k, w>>, so that reading        *)
(* anything but a whole field, at its place and width, yields nothing.     *)
(***************************************************************************)
EXTENDS Integers, Sequences

CONSTANTS
  Width32,       \* values of a 32-bit field (2^32)
  NameLen        \* bytes of the zone's name with its zero

Magic == -1       \* "TZif"
Name == -2
Garbage == -3
Version2 == 50    \* the character '2'
Version3 == 51

Field(v, w) == [k \in 1 .. w |-> <<v, k, w>>]

\* binary.Read of w bytes after position pos.
ReadAt(file, pos, w) ==
  IF pos + w <= Len(file) /\ SubSeq(file, pos + 1, pos + w) = Field(file[pos + 1][1], w)
    THEN file[pos + 1][1] ELSE Garbage

LeapTime(l) == l.Tleap - l.Nleap + 1

(***************************************************************************)
(* Write.                                                                  *)
(***************************************************************************)
prepareHeader(ver, cnt) ==
  Field(Magic, 4) \o Field(ver, 1) \o Field(0, 15)
    \o Field(1, 4) \o Field(1, 4) \o Field(cnt, 4)        \* IsUtc, IsStd, Leap
    \o Field(0, 4) \o Field(1, 4) \o Field(NameLen, 4)    \* Time, Type, Char

PreData == Field(0, 6) \o Field(Name, NameLen)
PostData == Field(0, 2)

\* Leap seconds with times of w bytes, one after the other.
Leaps(ls, w) ==
  [i \in 1 .. Len(ls) * (w + 4) |->
     LET l == ls[1 + ((i - 1) \div (w + 4))]
         k == 1 + ((i - 1) % (w + 4))
     IN  IF k <= w THEN <<IF w = 4 THEN l.Tleap % Width32 ELSE l.Tleap, k, w>>
         ELSE <<l.Nleap, k - w, 4>>]

Part(ver, ls, w) == prepareHeader(ver, Len(ls)) \o PreData \o Leaps(ls, w) \o PostData

Write(ver, ls) ==
  Part(ver, ls, 4)
    \o IF ver = Version2 THEN Part(ver, ls, 8) \o Field(0, 2) ELSE <<>>

(***************************************************************************)
(* parseVx.                                                                *)
(***************************************************************************)
Counts(file, pos) ==
  [IsUtc |-> ReadAt(file, pos + 20, 4), IsStd |-> ReadAt(file, pos + 24, 4),
   Leap |-> ReadAt(file, pos + 28, 4), Time |-> ReadAt(file, pos + 32, 4),
   Type |-> ReadAt(file, pos + 36, 4), Char |-> ReadAt(file, pos + 40, 4)]

HeaderSize == 44

\* Mutant of SkipPart: forgets the two indicators at the end.
SkipPartShort(h) == h.Time * 5 + h.Type * 6 + h.Char + h.Leap * 8

\* The first part of a file of version 2 is skipped completely.
SkipPart(h) == h.Time * 5 + h.Type * 6 + h.Char + h.Leap * 8 + h.IsUtc + h.IsStd

ReadLeaps(file, pos, n, w) ==
  [i \in 1 .. n |-> [Tleap |-> ReadAt(file, pos + (i - 1) * (w + 4), w),
                     Nleap |-> ReadAt(file, pos + (i - 1) * (w + 4) + w, 4)]]

Failed == [ok |-> FALSE, ls |-> <<>>]

\* A part starts with the magic and a version that is supported.
PartAt(file, pos, versions) ==
  ReadAt(file, pos, 4) = Magic /\ ReadAt(file, pos + 4, 1) \in versions

parseVx(file) ==
  LET h == Counts(file, 0)
      second == HeaderSize + SkipPart(h)
      h2 == Counts(file, second)
  IN  IF ~ PartAt(file, 0, {0, Version2, Version3}) THEN Failed
      ELSE IF ReadAt(file, 4, 1) = 0
        THEN [ok |-> TRUE,
              ls |-> ReadLeaps(file, HeaderSize + h.Time * 5 + h.Type * 6 + h.Char,
                               h.Leap, 4)]
      ELSE IF ~ PartAt(file, second, {Version2, Version3}) THEN Failed
        ELSE [ok |-> TRUE,
              ls |-> ReadLeaps(file,
                               second + HeaderSize + h2.Time * 9 + h2.Type * 6 + h2.Char,
                               h2.Leap, 8)]

\* The entry addFakeSecondZoneInfo appends for time t.
FakeLeap(ls, t) == [Tleap |-> t + Len(ls), Nleap |-> Len(ls) + 1]

=============================================================================
