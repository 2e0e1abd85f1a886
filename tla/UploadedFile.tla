---------------------------- MODULE UploadedFile ----------------------------
(***************************************************************************)
(* What becomes of the name and the pixels of one uploaded file: the name  *)
(* is sanitised and stored behind a hash of the content, the thumbnail is  *)
(* scaled by the C++ backend and stored behind "thumb_" and a hash.        *)
(***************************************************************************)
EXTENDS Naming, Resize

CONSTANTS
    Names,          \* what clients call their files
    Pictures,       \* what they hold
    AName, APicture,\* one of each: a file varies in its name or in its picture
    HashLength,     \* of the twelve hexadecimal digits and "_" before a name
    ThumbLength,    \* of "thumb_"
    NameMax         \* the longest name the file system takes

ASSUME NameAssumption == Names \cup {AName} \subseteq Seq(Characters)

ASSUME FileAssumption == {HashLength, ThumbLength, NameMax} \subseteq Nat

\* A decoded picture has at least one pixel, grey or coloured, with or without alpha.
IsPicture(p) ==
    /\ p.size \in (Nat \ {0}) \X (Nat \ {0})
    /\ p.channels \in 1..4
    /\ p.pixels \in [0..(p.size[1] * p.size[2] * p.channels - 1) -> 0..255]

ASSUME PictureAssumption == \A p \in Pictures \cup {APicture} : IsPicture(p)

VARIABLES
    file,           \* the upload
    stage,          \* how far it got
    name,           \* its sanitised name
    thumb           \* its thumbnail

vars == <<file, stage, name, thumb>>

None == [size |-> <<0, 0>>, channels |-> 0, pixels |-> <<>>]

Init ==
    /\ file \in [name : Names, picture : {APicture}] \cup [name : {AName}, picture : Pictures]
    /\ stage = "received"
    /\ name = <<>>
    /\ thumb = None

\* LocalImageStorage.store raises when the file system refuses the name.
Storable(n) == n + HashLength <= NameMax

Upload ==
    /\ stage = "received"
    /\ name' = sanitize_filename(OrUnnamed(file.name))
    /\ stage' = IF Storable(Len(name')) THEN "stored" ELSE "unstorable"
    /\ UNCHANGED <<file, thumb>>

\* _generate_thumbnail_cpp_sync: a picture that fits is kept as it is.
Thumbnail(p) ==
    LET dst == fit_dimensions(p.size[1], p.size[2]) IN
    IF dst = p.size THEN p
    ELSE [size |-> dst, channels |-> p.channels,
          pixels |-> bilinear_resize_bytes(p.pixels, p.size, p.channels, dst)]

Scale ==
    LET p == Normalized(file.picture) IN
    /\ stage = "stored"
    /\ IF \/ fit_dimensions(p.size[1], p.size[2]) = p.size
          \/ Accepts(p.pixels, p.size, p.channels, fit_dimensions(p.size[1], p.size[2]))
         THEN stage' = "scaled" /\ thumb' = Thumbnail(p)
         ELSE stage' = "refused" /\ UNCHANGED thumb
    /\ UNCHANGED <<file, name>>

StoreThumbnail ==
    /\ stage = "scaled"
    /\ stage' = IF Storable(ThumbLength + Len(name)) THEN "done" ELSE "failed"
    /\ UNCHANGED <<file, name, thumb>>

Next == Upload \/ Scale \/ StoreThumbnail

Spec == Init /\ [][Next]_vars

-----------------------------------------------------------------------------
(* Properties.                                                             *)

LettersOf(s) == Only(s, Letters)

\* Made of safe characters, not hidden, without two separators in a row.
IsSafe(n) ==
    /\ Len(n) \in 1..MaxFilenameLength
    /\ Range(n) \subseteq Safe
    /\ n[1] \in Letters
    /\ \A i \in 1..(Len(n) - 1) : {n[i], n[i + 1]} \cap Letters # {}

\* "Return a safe, flat filename" (sanitize.py:20-28): not empty and not too long, and
\* with a separator at the end only where the name was cut off.  A name that is safe
\* already is kept as it is.
SafeName ==
    stage # "received" =>
        /\ IsSafe(name)
        /\ Last(name) \in Letters \/ Len(name) = MaxFilenameLength
        /\ IsSafe(file.name) /\ Last(file.name) \in Letters => name = file.name

\* The stored name has the letters that follow the last path separator with a letter
\* behind it, in their order and, until the name is cut off, all of them; nothing of
\* the directories before it.  "unnamed" takes their place only when the path holds
\* no letter or ends with a component that holds none.
LettersKept ==
    LET path == Normalised(file.name)
        letters == {i \in DOMAIN path : path[i] \in Letters}
        cuts == {i \in DOMAIN path : path[i] \in {"/", "backslash"}}
        before == {0} \cup {i \in cuts : \E j \in letters : i < j}
        own == LettersOf(SubSeq(path, Max(before) + 1, Len(path)))
    IN  stage # "received" =>
            \/ /\ IsPrefix(LettersOf(name), own)
               /\ LettersOf(name) = own \/ Len(name) = MaxFilenameLength
            \/ /\ name = Unnamed
               /\ letters # {} => \E i \in cuts : \A j \in letters : j < i

\* No name but the empty one is made longer: a file whose ASCII name leaves room for both
\* prefixes is stored, and so is its thumbnail.  A longer one may be stored and
\* then never get a thumbnail.
ShortNamesGoThrough ==
    AtLeastOne(Len(LastComponent(file.name))) + HashLength + ThumbLength <= NameMax =>
        stage \notin {"unstorable", "failed"}

\* "Fit image into a bounding box while preserving aspect ratio"
\* (fast_resize.cpp:275): the resize is never refused, the thumbnail lies within the
\* box and touches it when it was shrunk, and its sides are as close to the source's
\* ratio as whole pixels allow.
FitsBox ==
    LET w == file.picture.size[1]   h == file.picture.size[2]
        tw == thumb.size[1]         th == thumb.size[2]
        longer == IF w > h THEN w ELSE h
        near(a, b) == 2 * (a - b) <= longer /\ 2 * (b - a) <= longer
    IN  stage \in {"scaled", "done", "failed", "refused"} =>
            IF longer <= MaxSize THEN thumb.size = <<w, h>>
            ELSE /\ {tw, th} \subseteq 1..MaxSize
                 /\ MaxSize \in {tw, th}
                 /\ near(tw * h, th * w) \/ 1 \in {tw, th}

\* Every byte is read from within the source picture, at its last row and column
\* too, and a channel of the thumbnail takes no value outside those the same channel
\* has in the source: nothing is read from another one, and the weights add up to one.
ChannelsApart ==
    LET p == Normalized(file.picture)
        values(chan) == {p.pixels[i] : i \in {j \in DOMAIN p.pixels : j % p.channels = chan}}
        read(i) == Range(CornersOf(i, p.size, p.channels, thumb.size))
    IN  stage \in {"scaled", "done", "failed"} =>
            \A i \in DOMAIN thumb.pixels :
                /\ thumb.size # p.size => \A c \in read(i) : c[1] \in DOMAIN p.pixels
                /\ thumb.pixels[i] \in Min(values(i % p.channels))..Max(values(i % p.channels))
=============================================================================
