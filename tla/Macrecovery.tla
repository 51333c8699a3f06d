------------------------------ MODULE Macrecovery ------------------------------
(***************************************************************************)
(* OpenCore/Utilities/macrecovery/macrecovery.py, run again and again into *)
(* one directory: download, which fetches a chunklist and an image and     *)
(* verifies the one with the other, selfcheck, verify and guess, which ask *)
(* the server of Apple what product it has for a serial number.            *)
(*                                                                         *)
(* A file is a sequence of chunks, named by the release they belong to;    *)
(* "bad" is a damaged chunk.  A read that ends early looks like the end of *)
(* the file: Content-Length is only used for the progress bar.             *)
(***************************************************************************)
EXTENDS Naturals, Sequences

CONSTANTS
  Releases,   \* of macOS, as the server names them
  Chunks,     \* how many an image has
  Servers     \* what servers answer: a product for each question

ASSUME ChunksAssumption == Chunks \in Nat

VARIABLES
  server,
  release,    \* what get_image_info has returned for this run
  cnk, dmg,   \* the two files
  mrStep,
  mrExit,     \* the status of the last download, "none" while one runs
  passed      \* the server has passed selfcheck

mrVars == <<server, release, cnk, dmg, mrStep, mrExit, passed>>

(* The MLBs selfcheck knows and, "anonymous", what product_mlb makes of a  *)
(* valid or a product MLB, with the os_type asked for.                     *)
Questions ==
  ({"valid", "product", "zero"} \X {"default", "latest"})
    \cup {<<"anonymous", "default">>}

Image(r) == [n \in 1 .. Chunks |-> r]
Whole(r) == [chunks |-> Image(r), signed |-> TRUE]
NoFile == <<>>

MrInit ==
  /\ server \in Servers
  /\ release \in Releases
  /\ cnk = [chunks |-> NoFile, signed |-> FALSE] /\ dmg = NoFile
  /\ mrStep = "idle" /\ mrExit = "none" /\ passed = FALSE

(* get_session and get_image_info; what they need may be missing.          *)
get_image_info ==
  /\ mrStep = "idle"
  /\ \/ release' \in Releases /\ mrStep' = "chunklist" /\ mrExit' = "none"
     \/ UNCHANGED <<release, mrStep>> /\ mrExit' = "failed"
  /\ UNCHANGED <<server, cnk, dmg, passed>>

(* What save_image leaves of the chunks of r: the file is emptied before   *)
(* the query, which may fail.                                              *)
Saved(r) ==
  {SubSeq(Image(r), 1, n) : n \in 0 .. Chunks}
    \cup {[Image(r) EXCEPT ![n] = "bad"] : n \in 1 .. Chunks}
    \cup {Append(Image(r), "bad")}

Fail ==
  /\ mrStep' = "idle" /\ mrExit' = "failed"

save_chunklist ==
  /\ mrStep = "chunklist"
  /\ cnk' \in [chunks : Saved(release), signed : BOOLEAN]
  /\ cnk'.signed => cnk'.chunks = Image(release)
  /\ Fail \/ (mrStep' = "image" /\ UNCHANGED mrExit)
  /\ UNCHANGED <<server, release, dmg, passed>>

save_image ==
  /\ mrStep = "image"
  /\ dmg' \in Saved(release)
  /\ Fail \/ (mrStep' = "verify" /\ UNCHANGED mrExit)
  /\ UNCHANGED <<server, release, cnk, passed>>

(* Mutant: nothing is read behind the last chunk.                          *)
verify_chunks ==
  /\ Len(dmg) >= Len(cnk.chunks)
  /\ \A n \in DOMAIN cnk.chunks : dmg[n] = cnk.chunks[n]
  /\ cnk.signed

(* Every chunk, the signature behind the last, and the end of the image.   *)
verify_image ==
  /\ Len(dmg) = Len(cnk.chunks)
  /\ \A n \in DOMAIN cnk.chunks : dmg[n] = cnk.chunks[n]
  /\ cnk.signed

action_download ==
  \/ get_image_info \/ save_chunklist \/ save_image
  \/ /\ mrStep = "verify" /\ mrStep' = "idle"
     /\ mrExit' = IF verify_image THEN "done" ELSE "failed"
     /\ UNCHANGED <<server, release, cnk, dmg, passed>>

(* Mutant: the products of the valid MLB may be the same.                  *)
consistent_without_previous(product) ==
  /\ product["product", "default"] = product["product", "latest"]
  /\ product["zero", "default"] = product["zero", "latest"]
  /\ product["valid", "latest"] = product["zero", "latest"]
  /\ product["product", "default"] = product["valid", "default"]

consistent(product) ==
  /\ product["valid", "default"] # product["valid", "latest"]
  /\ product["product", "default"] = product["product", "latest"]
  /\ product["zero", "default"] = product["zero", "latest"]
  /\ product["valid", "latest"] = product["zero", "latest"]
  /\ product["product", "default"] = product["valid", "default"]

action_selfcheck ==
  /\ mrStep = "idle"
  /\ passed' = consistent(server)
  /\ UNCHANGED <<server, release, cnk, dmg, mrStep, mrExit>>

MrNext == action_download \/ action_selfcheck

MrSpec == MrInit /\ [][MrNext]_mrVars

product_mlb(mlb) == IF mlb = "zero" THEN "zero" ELSE "anonymous"

action_verify(mlb) ==
  LET default == server[mlb, "default"]
      latest  == server[mlb, "latest"]
      newest  == server["zero", "latest"]
  IN  IF default # latest
      THEN IF latest = newest THEN "supported" ELSE "unsupported"
      ELSE IF default = newest THEN "new"
      ELSE IF server[product_mlb(mlb), "default"] # default THEN "invalid" ELSE "special"
-----------------------------------------------------------------------------
(* When download reports success both files are those of one release, as   *)
(* Apple signed it, whatever was cut short, damaged or left by other runs. *)
SuccessMeansVerified ==
  mrExit = "done" => \E r \in Releases : cnk = Whole(r) /\ dmg = Image(r)

(* When the server has passed selfcheck, verify tells the valid MLB from   *)
(* one that names a product only, and from none.                           *)
SelfcheckMeansVerifiable ==
  passed =>
    /\ action_verify("valid") = "supported"
    /\ action_verify("product") \in {"invalid", "special"}
    /\ action_verify("zero") = "new"
=============================================================================
