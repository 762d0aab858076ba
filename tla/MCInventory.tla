----------------------------- MODULE MCInventory -----------------------------
(* An AWS account with a role that a cluster's pod federates into, the cluster, *)
(* and a GCP project with a service account the pod may also act as.            *)
EXTENDS Inventory, TLC

A(s, v, o) == [svc |-> s, verb |-> v, on |-> o]
St(actions, resources) == [effect |-> "Allow", actions |-> actions, resources |-> resources]
Trusts(arn, via, guards) ==
    [effect |-> "Allow", principals |-> <<[arn |-> arn, via |-> via]>>, guards |-> guards]

MCReached == ("*" :> {"bucket"}) @@ ("bucket/*" :> {"bucket"}) @@ ("queue" :> {})
MCUsers == {"ci"}
MCRoles == {"app"}

Tags == {[svc |-> "s3", arn |-> "bucket", crit |-> "crown_jewel"]}

(* The role writes to the tagged bucket, and to everything it logs. *)
App(docs) ==
    [users |-> "ci" :> [docs |-> <<St({A("iam", "pass", "role"), A("iam", "*", "")}, <<>>)>>,
                        keys |-> <<[id |-> "AKIA", status |-> "active", used |-> TRUE]>>],
     roles |-> "app" :> [docs |-> docs,
                         trust |-> <<Trusts("ec2", "service", {}), Trusts("ci", "aws", {"mfa"})>>,
                         used |-> TRUE],
     tags |-> Tags]

MCAws == <<App(<<St({A("s3", "put", "object")}, <<"bucket/*">>)>>),
          App(<<[effect |-> "Deny", actions |-> {A("*", "*", "")}, resources |-> <<"*">>],
                St({A("s3", "get", "object")}, <<"*">>)>>)>>

R(verbs) == {Rule({""}, {"pods"}, verbs)}

Cluster(irsa, wif, ref) ==
    [accounts |-> "ns/pod" :> [tokens |-> <<>>, irsa |-> irsa, wif |-> wif],
     secrets  |-> {[name |-> "token", sa |-> "ns/pod"]},
     roles    |-> {[cluster |-> FALSE, ns |-> "ns", name |-> "reader", rules |-> R({"get"})],
                   [cluster |-> FALSE, ns |-> "other", name |-> "reader", rules |-> R({"patch"})],
                   [cluster |-> TRUE, ns |-> "", name |-> "reader", rules |-> R({"*"})]},
     bindings |-> {[cluster |-> FALSE, ref |-> ref, subjects |-> {"ns/pod"}]},
     pods     |-> "pod" :> "ns/pod"]

Ref(cluster, name) == [cluster |-> cluster, name |-> name]

MCK8s == <<Cluster("app", "gsa", Ref(FALSE, "reader"))>>

Project(state, grants) ==
    [urn |-> "gcp:project",
     accounts |-> "gsa" :>
       [state  |-> state,
        keys   |-> <<[id |-> "google", managed |-> "system", status |-> "active"],
                     [id |-> "user", managed |-> "user", status |-> "active"]>>,
        policy |-> <<[role |-> "roles/iam.serviceAccountTokenCreator", guarded |-> FALSE,
                      members |-> {[type |-> "public", id |-> "allUsers"]}]>>],
     grants |-> "gsa" :> grants]

MCGcp == <<Project("active", <<"roles/owner", "roles/storage.objectViewer">>),
           Project("disabled", <<"roles/storage.objectViewer", "roles/iam.serviceAccountUser">>)>>

MCVersions == ("aws" :> MCAws) @@ ("k8s" :> MCK8s) @@ ("gcp" :> MCGcp)

(* The hypothesis of the theorem on TypeOK, of these versions. *)
ASSUME BuildersAgree
=============================================================================
