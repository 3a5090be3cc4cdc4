-------------------------------- MODULE Images --------------------------------
(***************************************************************************)
(* What becomes of an uploaded photo (internal/images, validate/image.go): *)
(* the header is read and judged before a pixel is decoded, the picture is *)
(* cropped to a square, scaled and encoded again.  Pixels are left out: a  *)
(* picture is one value, and so is the JPEG that is made of it.            *)
(***************************************************************************)
EXTENDS Integers

CONSTANTS
    Photo,           \* pictures, and the JPEGs they become
    MaxImagePixels,  \* what an upload may decode to
    MaxInt           \* the largest int of the build: width and height are ints

ASSUME ImagesAssumption ==
    /\ MaxImagePixels \in Nat
    /\ MaxInt \in Nat /\ MaxImagePixels <= MaxInt

Int32 == (-MaxInt - 1) .. MaxInt

\* What int arithmetic makes of an integer.
Wrapped(n) == ((n + MaxInt + 1) % (2 * MaxInt + 2)) - (MaxInt + 1)

\* Mutant of ImageDimensions: the product is compared, which wraps round.
ImageDimensionsByProduct(width, height) ==
    /\ width > 0 /\ height > 0
    /\ Wrapped(width * height) <= MaxImagePixels

\* Divides: the product of two ints may not be one.
ImageDimensions(width, height) ==
    /\ width > 0 /\ height > 0
    /\ width <= MaxImagePixels \div height

CoverSide(w, h) == IF w < h THEN w ELSE h

\* The square cut out of a picture whose upper left corner is (minX, minY).
CoverRect(minX, minY, w, h) ==
    LET side == CoverSide(w, h)
        x == minX + (w - side) \div 2
        y == minY + (h - side) \div 2
    IN  [minX |-> x, minY |-> y, maxX |-> x + side, maxY |-> y + side]

\* An upload: whether it can be read, its header and its pixels decode and the
\* JPEG be written, the size the header declares, and the picture.
Upload == [read : BOOLEAN, header : BOOLEAN, width : Int32, height : Int32,
           pixels : BOOLEAN, encodes : BOOLEAN, photo : Photo]

IsImage(upload) ==
    /\ upload.header
    /\ ImageDimensions(upload.width, upload.height)
    /\ upload.pixels

\* The status PutMyAvatar answers an upload that is not stored, or 200: what
\* does not decode, or declares too much, is the client's fault; what cannot be
\* read or written is the server's.
Avatar(upload) ==
    CASE upload.read /\ ~IsImage(upload)                   -> 400
      [] upload.read /\ IsImage(upload) /\ upload.encodes -> 200
      [] OTHER                                            -> 500

\* A fingerprint: the same bytes have the same, other bytes another one.  The
\* code keeps 12 hex characters of a SHA-256, "plenty to tell one person's
\* avatars apart" (avatar.go:99): that two photos of an account agree in them
\* is left out.
Hash(bytes) == <<"sha256", bytes>>

-----------------------------------------------------------------------------
(* What the properties of Profiles say of every upload.                    *)

\* Pixels are decoded only if there are some and at most MaxImagePixels.
BoundedDecodes ==
    \A upload \in Upload :
        Avatar(upload) = 200 =>
            upload.width * upload.height \in 1 .. MaxImagePixels

\* coverRect is a square inside the picture, as large as any, and its centre
\* is the picture's to half a pixel, wherever the picture's corner is.
CentredCrops ==
    \A minX, minY \in Int32, w, h \in 1 .. MaxImagePixels :
        LET r == CoverRect(minX, minY, w, h)
            Gap(low, high, inLow, inHigh) == (inLow - low) - (high - inHigh)
        IN  /\ minX <= r.minX /\ r.maxX <= minX + w
            /\ minY <= r.minY /\ r.maxY <= minY + h
            /\ r.maxX - r.minX = r.maxY - r.minY
            /\ r.maxX - r.minX = w \/ r.maxY - r.minY = h
            /\ Gap(minX, minX + w, r.minX, r.maxX) \in {-1, 0}
            /\ Gap(minY, minY + h, r.minY, r.maxY) \in {-1, 0}
=============================================================================
