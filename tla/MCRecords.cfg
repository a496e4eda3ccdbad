CONSTANTS
    None = None
    Subjects = {"messages", "tree", "words", "public words", "witness", "statement", "ceremony", "public check"}
SPECIFICATION RunSpec
INVARIANTS
    MessagesExact
    CommitmentsBind
    LayoutsAgree
    StatementExact
    VerdictsAsPlanned
