------------------------ MODULE MCCertificateRenewal ------------------------
(* Instance of CertificateRenewal for TLC.                                 *)
EXTENDS CertificateRenewal

MCOrder == <<"master", "indexer", "dashboard", "filebeat", "admin">>

Env(faults, policies, reloads, offsets) ==
  [faults : {faults}, policy : policies, parses : {TRUE}, reload : reloads,
   offset : offsets]

(* Every policy and every kind of reload with nothing going wrong, the     *)
(* faults by the properties that allow them.  With reload and spec the one *)
(* event may stay away, which is the policy "always" with nothing going    *)
(* wrong.                                                                  *)
MCEnvironments ==
  Env({}, {"windows"}, {"automatic"}, 0..Period - 1)
    \cup {[e EXCEPT !.parses = FALSE] :
            e \in Env({}, {"windows"}, {"automatic"}, {0})}
    \cup Env({}, {"always"}, {"none"}, {0})
    \cup Env({}, {"manual"}, {"api"}, {0})
    \cup Env({"reload", "spec"}, {"always"}, {"api"}, {0})
    \cup Env({"interrupt", "k8s"}, {"always"}, {"api"}, {0})
    \cup Env({"user"}, {"manual"}, {"none"}, {0})

(* Only a CA renewal, with nothing going wrong.                            *)
QuietEnvironments == Env({}, {"always"}, {"automatic"}, {0})
=============================================================================
