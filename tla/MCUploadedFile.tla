--------------------------- MODULE MCUploadedFile ---------------------------
(***************************************************************************)
(* Names of up to MaxRaw characters; pictures of up to MaxSide by MaxSide  *)
(* pixels in which one byte differs from the rest.  Interpolation is       *)
(* linear, so these show every weight.                                     *)
(***************************************************************************)
EXTENDS UploadedFile

CONSTANTS MaxRaw, MaxSide

MCNames == UNION {[1..n -> Characters] : n \in 0..MaxRaw}

Bytes(size, channels) == 0..(size[1] * size[2] * channels - 1)

MCPictures ==
    UNION {{[size |-> size, channels |-> c, pixels |-> [i \in Bytes(size, c) |-> IF i = k THEN 255 ELSE 10]]
              : k \in Bytes(size, c)}
           : size \in (1..MaxSide) \X (1..MaxSide), c \in 1..4}

MCName == <<"w">>
MCPicture == [size |-> <<1, 1>>, channels |-> 3, pixels |-> [i \in 0..2 |-> 0]]
=============================================================================
