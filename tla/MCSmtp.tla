------------------------------- MODULE MCSmtp -------------------------------
EXTENDS SmtpCheck

Plain(kind) == [kind |-> kind, codes |-> <<"none", "none">>, words |-> {}]
Unknown == [kind |-> "permanent", codes |-> <<"5.1.1", "none">>,
            words |-> {"user unknown"}]
Full == [kind |-> "transient", codes |-> <<"4.2.2", "none">>, words |-> {}]
Blacklisted == [kind |-> "permanent", codes |-> <<"5.7.1", "none">>,
                words |-> {"blacklist"}]
Greylisted == Plain("transient")

MCReplies == {Plain("accepted"), Plain("unclear"), Plain("incomplete"),
              Plain("broken"), Plain("garbled"), Unknown, Full, Blacklisted,
              Greylisted}
=============================================================================
