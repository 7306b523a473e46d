---------------------------- MODULE MCJobConfig ----------------------------
(* Small instances of JobConfig: lists with a stem of both models, of the  *)
(* larger only, of none, with two in the models' order and not.            *)
EXTENDS JobConfig

MCStemLists ==
    {<<>>, <<"drums">>, <<"piano">>, <<"piano", "drums">>, <<"vocals", "vocals">>, <<"synths">>}

MCBases ==
    {b \in Templates :
        b.stems_filter \in {<<>>, <<"drums">>, <<"piano">>} /\ AllIn(b.stems_filter, b.profile)}

=============================================================================
