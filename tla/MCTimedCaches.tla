---------------------------- MODULE MCTimedCaches ----------------------------
(***************************************************************************)
(* Two tasks and one subject, an image to the verifications and a resource *)
(* to get_resource.  (They share no data, so nothing is lost if they       *)
(* change together.)  The image is first signed with the two keys the      *)
(* policies ask for; when its tag is moved, one signature is missing.      *)
(*                                                                         *)
(* Two questions about certificates read the same in a row: a certificate, *)
(* a chain of two and the annotations a=b and c=d, against the first two   *)
(* certificates joined, a chain of one and the annotation a="b c d".       *)
(***************************************************************************)
EXTENDS TimedCaches

CONSTANTS t1, t2, subject, key1, key2, prod, badUrl,
          leaf, middle, joined, root, noRekor, one, two

Question(f, signers, annotations, disable) ==
  [function |-> f, subject |-> subject, signers |-> signers, chain |-> NoChain,
   annotations |-> annotations, disable_cache |-> disable]

Certificate(cert, chain, annotations) ==
  [Question("certificate", <<cert, noRekor>>, annotations, FALSE) EXCEPT !.chain = chain]

MCQuestions ==
  { Question("pub_key", <<key1, key2>>, {}, FALSE),
    Question("pub_key", <<key1, key2>>, {prod}, FALSE),
    Question("keyless_prefix", <<badUrl>>, {}, FALSE),
    Question("get_resource", <<>>, {}, FALSE),
    Question("get_resource", <<>>, {}, TRUE),
    Certificate(leaf, <<middle, root>>, {one}),
    Certificate(joined, <<root>>, {two}) }

MCMet ==
  [s \in Subjects |->
     << {<<key1, {}>>, <<key2, {}>>, <<key1, {prod}>>, <<key2, {prod}>>,
         << <<leaf, noRekor>>, <<middle, root>> >>, <<AnySigner, {one}>>},
        {<<key1, {}>>, <<key2, {}>>, <<key1, {prod}>>,
         << <<joined, noRekor>>, <<root>> >>, <<AnySigner, {two}>>} >>]

MCText ==
  [x \in Subjects \cup Signers \cup { q.annotations : q \in Questions } |->
     CASE x = joined -> <<leaf, middle>>
       [] x \in {{one}, {two}} -> <<"a", "b", "c", "d">>
       [] x = {} -> <<>>
       [] OTHER -> <<x>>]
=============================================================================
