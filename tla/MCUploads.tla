------------------------------ MODULE MCUploads ------------------------------
(* Small instances of Uploads for TLC. *)
EXTENDS Uploads, TLC

CONSTANTS a, b, c, image, document

\* Two parts of one field and one of another.
TwoImages == a :> image @@ b :> image @@ c :> document

\* persist, then validate and thumb in either order, for an image; persist for a document.
ThumbAndDocument ==
    a :> <<"store", "check", "store">> @@ b :> <<"store", "store", "check">>
    @@ c :> <<"store">>
=============================================================================
