------------------------------ MODULE ImageIDs ------------------------------
(* image/image.go: the IDs by which both stores know an image.             *)
CONSTANTS
    Images,    \* image IDs; an ID is the digest of the image's configuration
    None       \* the empty ID
=============================================================================
