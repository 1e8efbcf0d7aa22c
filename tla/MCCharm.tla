------------------------------ MODULE MCCharm ------------------------------
EXTENDS Charm, TLC

CONSTANTS bad, noClouds, repo, absent, none, k1, k2, k3

MCMalformed == {bad}
MCNoClouds == {noClouds}
MCRepos == {repo}

Option ==
    [path |-> repo, group |-> "default", token |-> k1, tokenSecret |-> "",
     appClient |-> "", installation |-> "", keySecret |-> "",
     labels |-> <<"x">>, external |-> FALSE, interval |-> 10, mirror |-> "",
     cloudsSecret |-> "", clouds |-> k1, base |-> 0, max |-> 0,
     machines |-> 1, flavorLabels |-> <<>>, flavor |-> "small", proxy |-> "",
     aproxy |-> FALSE, exclude |-> <<>>, ports |-> <<>>, otel |-> ""]

Inputs(o, r) ==
    [opt |-> o @@ Option, secret |-> [s1 |-> k2, s2 |-> "", s3 |-> absent],
     image |-> r.image, planner |-> r.planner, debug |-> r.debug,
     juju |-> r.juju]

NoProxy == [http |-> "", https |-> "", no |-> "local"]
Image(i) == [id |-> i, tags |-> <<"img">>]
Related == [image |-> Image("i1"), planner |-> None, debug |-> {},
            juju |-> NoProxy]
Endpoint(e, t) == [endpoint |-> e, token |-> t]
Over(r, s) == s @@ r

(* A deployment that is fine, and goes on to change.                       *)
Changing(n) ==
    [inputs |-> Inputs([cloudsSecret |-> "s1"],
                       Over(Related, [planner |-> Endpoint("url", "s1")])),
     changes |-> n]

(* Deployments to see what is accepted: values of one option, combined     *)
(* with others that it matters to.                                         *)
App(c, i, k) == [appClient |-> c, installation |-> i, keySecret |-> k]

Authentications ==
    {[token |-> t, tokenSecret |-> s] @@ App(c, i, k) :
        t \in {"", k1}, s \in {"", "s1", "s2", "s3"}, c \in {"", "c"},
        i \in {"", "i"}, k \in {"", "s1", "s2", "s3"}}

Sizes == {[base |-> b, max |-> x, machines |-> m] :
            b \in 0..2, x \in -1..2, m \in 0..1}

CloudLists == {[clouds |-> c, cloudsSecret |-> s] :
                 c \in {"", k1, bad, noClouds}, s \in {"", "s1", "s2", "s3"}}

Flavors == {[flavorLabels |-> l, flavor |-> f] :
    f \in {"", "small"},
    l \in {<<>>} \cup
          UNION {[1..n -> [flavor : {"", "f"}, label : {"", "l"}]] :
                    n \in 1..2}}

Proxies == {[proxy |-> p, aproxy |-> a] :
              p \in {"", k1, bad}, a \in BOOLEAN}

Others ==
    {[path |-> p] : p \in {"", bad, "org"}}
    \cup {[interval |-> n] : n \in -1..1}
    \cup {[labels |-> l] : l \in {<<>>, <<bad>>, <<"x", bad>>}}
    \cup {[mirror |-> bad], [otel |-> bad], [exclude |-> <<bad>>],
          [exclude |-> <<"e">>], [external |-> TRUE]}
    \cup {[ports |-> p] : p \in {<< <<65535>> >>, << <<65536>> >>, << <<>> >>,
                                 << <<1, 65535>>, <<-1, 2>> >>,
                                 << <<9, 1>> >>, << <<1, 2, 3>> >>}}

Relations ==
    {Over(Related, [image |-> i]) : i \in {None, [id |-> "", tags |-> <<>>]}}
    \cup {Over(Related, [planner |-> Endpoint(e, t)]) :
            e \in {"", "url", bad}, t \in {"", "s1", "s2", "s3"}}
    \cup {Over(Related, [debug |-> d]) : d \in {{""}, {bad, ""}, {"d"}}}

Jujus == {Over(Related, [juju |-> [http |-> h, https |-> s, no |-> "local"]]) :
            h \in {"", "h", bad}, s \in {"", "s", bad}}

Probes ==
    {[inputs |-> Inputs(o, Related), changes |-> 0] :
        o \in Authentications \cup Sizes \cup CloudLists \cup Flavors
                \cup Others}
    \cup {[inputs |-> Inputs(o, r), changes |-> 0] :
            o \in {Option}, r \in Relations}
    \cup {[inputs |-> Inputs(o, r), changes |-> 0] :
            o \in Proxies, r \in Jujus}

MCDeployments == {Changing(2)} \cup Probes

(* A deployment whose debug relation is made, and whose interval is set to *)
(* what the charm refuses and back.                                        *)
MCFlushDeployments == {[Changing(3) EXCEPT !.inputs.planner = None]}
MCIntervals == {<<"interval", 0>>, <<"interval", 10>>}
MCSameImage == {Image("i1")}

(* Labels and interval can be changed, and changed back.                   *)
MCAlternatives ==
    {<<"labels", <<"x">>>>, <<"labels", <<"y">>>>,
     <<"interval", 0>>, <<"interval", 10>>, <<"cloudsSecret", "">>}

MCContents == {k3, ""}
MCImages == {None, [id |-> "", tags |-> <<>>], Image("i2")}
MCPlanners == {None, Endpoint("url", "s1")}
=============================================================================
