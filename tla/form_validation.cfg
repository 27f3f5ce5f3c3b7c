SPECIFICATION FormSpec
CONSTANTS
    Fields = {name, mail, late}
    Required = {name}
    Bounded = {name, late}
    Unbounded = {late}
    Formatted = {mail}
    Replacing = {name}
INVARIANTS MarkedIsWrong SentIsRight SummaryIsOfLastRefusal
