---------------------------- MODULE MCTokenizers ----------------------------
EXTENDS Tokenizers

Piece(shows, text) == [shows |-> shows, text |-> text]

SmallPieces == {
    Piece("text", <<"A">>), Piece("text", <<"^">>), Piece("text", <<" ">>),
    Piece("break", <<"<", "b", ">">>),
    Piece("break", <<"<", "HEAD", ">", "a", "<", "/", "head", ">">>),
    Piece("break", <<"<", "footer", "notes", ">", "a", "<", "/", "footer", ">">>),
    Piece("break", <<"<", "footer", ">">>),
    Piece("break", <<"<", "head", "er", ">">>), Piece("break", <<"<", "t", "head", ">">>),
    Piece("nothing", <<"<", "ruby", ">">>), Piece("nothing", <<"<", "/", "ruby", ">">>),
    Piece("nothing", <<"<", "rt", ">", "a", "<", "/", "rt", ">">>),
    Piece("unhandled", <<"<", "HEAD", ">", "a", "<", "/", "HEAD", ">">>),
    Piece("unhandled", <<"<", "rt", "c", ">">>),
    Piece("malformed", <<"<", "ruby">>), Piece("malformed", <<"<", "/", "rt", ">">>),
    Piece("malformed", <<"<", "head">>), Piece("malformed", <<"<", "rp", ">">>) }
=============================================================================
