------------------------------ MODULE MCUploads ------------------------------
(* Two requests at a time on up to two sessions of two chunks. *)
EXTENDS Uploads, TLC

Local(onces, calms, quotas) ==
    [once : onces, calm : calms, serial : {FALSE}, s3 : {FALSE}, quota : quotas]

Bucket == [once : {TRUE}, calm : {TRUE}, serial : {FALSE}, s3 : {TRUE}, quota : {3}]
              \union [once : {FALSE}, calm : {TRUE}, serial : {TRUE}, s3 : {TRUE}, quota : {3}]

Orderly == Local(BOOLEAN, {TRUE}, {4}) \union Bucket

LocalOrderly == Local(BOOLEAN, {TRUE}, {4})

AnyMode == Local(BOOLEAN, BOOLEAN, {3})

Symmetry == Permutations(Sessions) \union Permutations(Reqs)
=============================================================================
