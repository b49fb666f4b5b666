---------------------------- MODULE Certificates ----------------------------
(***************************************************************************)
(* verify_certificate: a certificate against a chain given by the policy,  *)
(* the last of which is trusted, or against Mozilla's roots.  The steps    *)
(* before the verification fail in a fixed order; after it nothing fails.  *)
(*                                                                         *)
(* webpki is external: it answers ok only along a path of signatures, and  *)
(* does not look at the dates of a root.  A certificate says who signed    *)
(* it, by name; names stand for keys.                                      *)
(*                                                                         *)
(* Source: callback_handler/crypto.rs.                                     *)
(***************************************************************************)
EXTENDS Integers, Sequences, FiniteSets

CONSTANTS
  Requests,  \* records: certificate, chain (given and certificates), notAfter (form and time)
  Mozilla,   \* the set of certificates of Mozilla's roots
  Present,   \* Utc::now, in the unit of the requests
  Word       \* the number of values of a u64

CertificateType == [name : STRING, signer : STRING, from : Int, until : Int, form : STRING]
RequestType ==
  [certificate : CertificateType,
   chain : [given : BOOLEAN, certificates : Seq(CertificateType)],
   notAfter : [form : STRING, time : Int]]

\* A time asked for is an i64, which may be before 1970.  As a u64 it is then
\* beyond the dates of all certificates: no date has a year of five digits.
ASSUME TimesAssumption ==
  /\ Word \in Nat \ {0} /\ Present \in 0..(Word - 1)
  /\ Requests \subseteq RequestType
  /\ \A q \in Requests : /\ q.notAfter.time \in (-Word)..(Word - 1)
                         /\ q.certificate.until < Word + q.notAfter.time

VARIABLES
  asked,          \* the request
  stage,          \* what verify_certificate does next
  moment,         \* verification_time
  roots, intermediates,
  response        \* the result: an error, or trusted and the reason why not

certificateVars == <<asked, stage, moment, roots, intermediates, response>>

Untrusted(reason) == [result |-> "ok", trusted |-> FALSE, reason |-> reason]
Trusted == [result |-> "ok", trusted |-> TRUE, reason |-> ""]
Error == [result |-> "error", trusted |-> FALSE, reason |-> ""]

-----------------------------------------------------------------------------
Converts(c) == c.form # "bad PEM"
IsCertificate(c) == Converts(c) /\ c.form # "other DER"

Answer(r) ==
  /\ stage' = "done"
  /\ response' = r

TakeCertificate ==
  /\ stage = "certificate"
  /\ IF IsCertificate(asked.certificate)
       THEN stage' = "time" /\ UNCHANGED response
       ELSE Answer(Error)
  /\ UNCHANGED <<asked, moment, roots, intermediates>>

\* A slip: what is before 1970 is taken for 1970.
AsU64Saturating(t) == IF t < 0 THEN 0 ELSE t

\* A signed number of seconds as an unsigned one.
AsU64(t) == t % Word

TakeTime ==
  /\ stage = "time"
  /\ CASE asked.notAfter.form = "garbled" -> Answer(Error) /\ UNCHANGED moment
       [] asked.notAfter.form = "none" -> moment' = AsU64(Present) /\ stage' = "pool" /\ UNCHANGED response
       [] OTHER -> moment' = AsU64(asked.notAfter.time) /\ stage' = "pool" /\ UNCHANGED response
  /\ UNCHANGED <<asked, roots, intermediates>>

\* Without a chain, Mozilla's roots and no intermediates.
UseMozilla ==
  /\ stage = "pool" /\ ~asked.chain.given
  /\ roots' = Mozilla
  /\ stage' = "verify"
  /\ UNCHANGED <<asked, moment, intermediates, response>>

\* All of the chain must convert, and its last, which is the one that is
\* trusted, must be a certificate.  An empty chain trusts nothing.
UseChain ==
  LET chain == asked.chain.certificates
      root == {Len(chain)} \ {0}
  IN
  /\ stage = "pool" /\ asked.chain.given
  /\ IF /\ \A i \in DOMAIN chain : Converts(chain[i])
        /\ \A i \in root : IsCertificate(chain[i])
       THEN /\ roots' = {chain[i] : i \in root}
            /\ intermediates' = {chain[i] : i \in DOMAIN chain \ root}
            /\ stage' = "verify" /\ UNCHANGED response
       ELSE Answer(Error) /\ UNCHANGED <<roots, intermediates>>
  /\ UNCHANGED <<asked, moment>>

-----------------------------------------------------------------------------
\* The certificate is valid at a time, both ends included.
ValidAt(c, t) == c.from <= t /\ t <= c.until

\* A path from certificate c to one of the roots through certificates of the
\* pool, all of which but the root are valid at t.
Anchored(c, pool, anchors, t) ==
  \E n \in 0..Cardinality(pool) : \E path \in [1..n -> {d \in pool : IsCertificate(d) /\ ValidAt(d, t)}] :
    /\ ValidAt(c, t)
    /\ LET signedBy(i, name) == (IF i = 0 THEN c ELSE path[i]).signer = name
       IN  /\ \A i \in 1..n : signedBy(i - 1, path[i].name)
           /\ \E r \in anchors : signedBy(n, r.name)

\* What webpki may answer.  It looks at the dates of the certificate itself
\* first, and may refuse for more reasons than are modelled.
VerificationResults ==
  CASE moment > asked.certificate.until -> {"expired"}
    [] moment < asked.certificate.from -> {"not yet valid"}
    [] Anchored(asked.certificate, intermediates, roots, moment) -> {"ok", "other"}
    [] OTHER -> {"expired", "not yet valid", "bad signature", "unknown issuer", "other"}

Verify(result) ==
  /\ stage = "verify" /\ result \in VerificationResults
  /\ Answer(CASE result = "ok" -> Trusted
              [] result = "expired" -> Untrusted("used after its expiration")
              [] result = "not yet valid" -> Untrusted("used before its validity")
              [] result \in {"bad signature", "unknown issuer"} -> Untrusted("not trusted by the chain")
              [] OTHER -> Untrusted("not trusted"))
  /\ UNCHANGED <<asked, moment, roots, intermediates>>

-----------------------------------------------------------------------------
NothingYet ==
  /\ moment = 0 /\ roots = {} /\ intermediates = {}
  /\ response = Error

CertificatesInit == asked \in Requests /\ stage = "certificate" /\ NothingYet

NoRequest == [chain |-> [given |-> FALSE, certificates |-> <<>>]]
CertificatesRest == asked = NoRequest /\ stage = "unasked" /\ NothingYet

CertificatesNext ==
  \/ TakeCertificate
  \/ TakeTime
  \/ UseMozilla
  \/ UseChain
  \/ \E result \in {"ok", "expired", "not yet valid", "bad signature", "unknown issuer", "other"} :
       Verify(result)

CertificatesSpec == CertificatesInit /\ [][CertificatesNext]_certificateVars

-----------------------------------------------------------------------------
(* Properties.                                                             *)

\* A certificate is trusted only for a time, before 1970 or not, at which it and
\* the intermediate certificates that lead to its root are valid; the root's own
\* dates do not count ("does not check the expiration of the root CA", crypto.rs:30).
\* The root is the last certificate of the chain given and is reached through
\* others of that chain; it is never one of Mozilla's if a chain is given, be it
\* empty (verify_certificate, CertificatePool::from_certificates).
TrustIsAnchored ==
  stage = "done" /\ response.trusted =>
    LET time == IF asked.notAfter.form = "none" THEN Present ELSE asked.notAfter.time
        chain == asked.chain.certificates
        last == Len(chain)
    IN  IF asked.chain.given
          THEN last > 0 /\ Anchored(asked.certificate, {chain[i] : i \in 1..(last - 1)}, {chain[last]}, time)
          ELSE Anchored(asked.certificate, {}, Mozilla, time)
=============================================================================
